---- MODULE Spec2Model ----
(***************************************************************************)
(* Rusty Lambda: the packed term representation (expr.rs), the Shift and   *)
(* Replace visitors and the normal-order Evaluator (command/executor.rs),  *)
(* the Binary Lambda Calculus codec (command/encode.rs, command/decode.rs) *)
(* and the REPL loop (command/run.rs).                                     *)
(*                                                                         *)
(* A 64-bit word is modelled by its three bit fields                       *)
(*     t  = bit 63        (IS_TERM_BIT)                                    *)
(*     hi = bits 48..62   (the rest of STR_LENGTH_MASK)                    *)
(*     lo = bits 0..47    (POINTER_MASK)                                   *)
(* An arena is the sequence of the cells it has allocated; the address of  *)
(* a cell is its position.  A string of the text arena is addressed by its *)
(* position in TextData.                                                   *)
(***************************************************************************)
EXTENDS Integers, Sequences, FiniteSets, TLC

\* ------------------------------------------------------------------ bounds

\* Largest number of nodes of an enumerated input term.
MaxNodes == 5
\* Largest number of nodes of b and of x in an enumerated redex (\x. b) x.
MaxPart == 3
\* Largest de Bruijn index of an enumerated input term.
MaxIndex == 2
\* Outer-loop iterations that change the term before the exploration of one
\* call stops (no further iteration is begun).
MaxSteps == 5

\* ---------------------------------------------------------------- expr.rs

MAX_STR_LENGTH == 32767

\* The strings that parameter names point to.
TextData == <<"x", "y", "z", "f", "x1", "x2", "x3", "x4", "x5", "x6", "x7", "x8", "a", "b">>

\* Position of the first decoder-made name "x1" in TextData, minus one.
XBase == 4

\* A &str: pointer and length.
Str(ptr) == [ptr |-> ptr, len |-> Len(TextData[ptr])]

StrOf(s) == Str(CHOOSE p \in 1..Len(TextData) : TextData[p] = s)

\* The handle that stands for a panic unwinding through the caller (no real
\* handle is the zero word).
Unwind == [t |-> 0, hi |-> 0, lo |-> 0]

\* The 63 index bits of a Variable handle are the fields hi and lo; index
\* arithmetic is scaled so that lo counts up to LO_SPAN and hi up to
\* MAX_STR_LENGTH (the real spans are 2^48 and 2^15).
LO_SPAN == 32768

TERM_SPAN == (MAX_STR_LENGTH + 1) * LO_SPAN

\* Allocator::new_term: de_bruijn_index | IS_TERM_BIT.  NonZero::new(0) is
\* None, and the callers' expect then panics.
new_term(de_bruijn_index) ==
  IF de_bruijn_index = 0 THEN Unwind
  ELSE [t |-> 1, hi |-> de_bruijn_index \div LO_SPAN, lo |-> de_bruijn_index % LO_SPAN]

\* CompactExpr::new_lambda: right = (len << STR_LENGTH_SHIFT) | ptr.
CompactExpr_new_lambda(param_name, body) ==
  [left  |-> body,
   right |-> [t  |-> (param_name.len \div (MAX_STR_LENGTH + 1)) % 2,
              hi |-> param_name.len % (MAX_STR_LENGTH + 1),
              lo |-> param_name.ptr]]

\* CompactExpr::new_eval.
CompactExpr_new_eval(left, right) == [left |-> left, right |-> right]

\* Allocator::new_lambda: the arena after the allocation and the new handle.
new_lambda(arena, param_name, body) ==
  IF body = Unwind THEN [arena |-> arena, out |-> Unwind]
  ELSE [arena |-> Append(arena, CompactExpr_new_lambda(param_name, body)),
        out   |-> [t |-> 0, hi |-> 0, lo |-> Len(arena) + 1]]

\* Allocator::new_eval.
new_eval(arena, left, right) ==
  IF left = Unwind \/ right = Unwind THEN [arena |-> arena, out |-> Unwind]
  ELSE [arena |-> Append(arena, CompactExpr_new_eval(left, right)),
        out   |-> [t |-> 0, hi |-> 0, lo |-> Len(arena) + 1]]

\* unpack that tells a Lambda by the length field alone.
unpack_by_length_alone(arena, expr) ==
  IF expr.t # 0
  THEN [kind |-> "Term", de_bruijn_index |-> expr.hi * LO_SPAN + expr.lo]
  ELSE LET cell == arena[expr.lo]
       IN  IF cell.right.hi = 0
           THEN [kind |-> "Eval", left |-> cell.left, right |-> cell.right]
           ELSE [kind |-> "Lambda", body |-> cell.left,
                 parameter_name |-> [ptr |-> cell.right.lo, len |-> cell.right.hi]]

\* ExprRef::unpack with CompactExpr::visit: the tag bit, then the cell's
\* right word decides between Eval and Lambda.
unpack(arena, expr) ==
  IF expr.t # 0
  THEN [kind |-> "Term", de_bruijn_index |-> expr.hi * LO_SPAN + expr.lo]
  ELSE LET cell == arena[expr.lo]
       IN  IF cell.right.t # 0 \/ (cell.right.t = 0 /\ cell.right.hi = 0)
           THEN [kind |-> "Eval", left |-> cell.left, right |-> cell.right]
           ELSE [kind |-> "Lambda", body |-> cell.left,
                 parameter_name |-> [ptr |-> cell.right.lo, len |-> cell.right.hi]]

\* ------------------------------------------------------------ term trees

\* A term written out as a tree (what a handle denotes in an arena).
Var(i) == [kind |-> "Term", i |-> i]
Lam(name, body) == [kind |-> "Lambda", name |-> name, body |-> body]
App(left, right) == [kind |-> "Eval", left |-> left, right |-> right]

\* Recursive definitions are functions on Any: a function's arguments are
\* values, computed once where the function is applied, and
\* [v \in Any |-> e][x] is e with v the value of x.
TreeOf[arena \in Any, expr \in Any] ==
  LET u == unpack(arena, expr)
  IN  CASE u.kind = "Term"   -> Var(u.de_bruijn_index)
        [] u.kind = "Lambda" -> Lam(TextData[u.parameter_name.ptr], TreeOf[arena, u.body])
        [] u.kind = "Eval"   -> App(TreeOf[arena, u.left], TreeOf[arena, u.right])

\* The de Bruijn structure of a tree: parameter names dropped.
Strip[tree \in Any] ==
  CASE tree.kind = "Term"   -> tree
    [] tree.kind = "Lambda" -> [kind |-> "Lambda", body |-> Strip[tree.body]]
    [] tree.kind = "Eval"   -> App(Strip[tree.left], Strip[tree.right])

\* Every Variable index is at most the number of Lambdas enclosing it.
ClosedAt[tree \in Any, depth \in Any] ==
  CASE tree.kind = "Term"   -> tree.i <= depth
    [] tree.kind = "Lambda" -> ClosedAt[tree.body, depth + 1]
    [] tree.kind = "Eval"   -> ClosedAt[tree.left, depth] /\ ClosedAt[tree.right, depth]

Closed(tree) == ClosedAt[tree, 0]

\* The trees of exactly n nodes with indices 1..maxIndex and the given names.
RECURSIVE TreesOfSize(_, _, _)
TreesOfSize(n, maxIndex, names) ==
  IF n <= 0 THEN {}
  ELSE IF n = 1 THEN {Var(i) : i \in 1..maxIndex}
  ELSE {Lam(nm, b) : nm \in names, b \in TreesOfSize(n - 1, maxIndex, names)}
       \cup UNION {{App(l, r) : l \in TreesOfSize(k, maxIndex, names),
                                r \in TreesOfSize(n - 1 - k, maxIndex, names)}
                   : k \in 1..(n - 2)}

TreesUpTo(n, maxIndex, names) == UNION {TreesOfSize(k, maxIndex, names) : k \in 1..n}

\* SymbolTable::build_*_lambda / build_*_eval: a term is allocated bottom-up,
\* the function of an application before its argument.
Build[arena \in Any, tree \in Any] ==
  CASE tree.kind = "Term"   -> [arena |-> arena, out |-> new_term(tree.i)]
    [] tree.kind = "Lambda" ->
         [b \in Any |-> new_lambda(b.arena, StrOf(tree.name), b.out)][Build[arena, tree.body]]
    [] tree.kind = "Eval"   ->
         [l \in Any |-> [r \in Any |-> new_eval(r.arena, l.out, r.out)][Build[l.arena, tree.right]]
         ][Build[arena, tree.left]]

\* SymbolTable::build_*_term returns a global's handle verbatim, and
\* build_number reuses the cached numeral bodies, so equal sub-terms of a
\* bound term may be one and the same cell: the term built with every
\* repeated sub-term shared.
reuse(arena, cell, fresh) ==
  IF \E a \in 1..Len(arena) : arena[a] = cell
  THEN [arena |-> arena,
        out   |-> [t |-> 0, hi |-> 0, lo |-> CHOOSE a \in 1..Len(arena) : arena[a] = cell]]
  ELSE fresh

BuildShared[arena \in Any, tree \in Any] ==
  CASE tree.kind = "Term"   -> [arena |-> arena, out |-> new_term(tree.i)]
    [] tree.kind = "Lambda" ->
         [b \in Any |-> reuse(b.arena, CompactExpr_new_lambda(StrOf(tree.name), b.out),
                              new_lambda(b.arena, StrOf(tree.name), b.out))
         ][BuildShared[arena, tree.body]]
    [] tree.kind = "Eval"   ->
         [l \in Any |-> [r \in Any |-> reuse(r.arena, CompactExpr_new_eval(l.out, r.out),
                                             new_eval(r.arena, l.out, r.out))
                        ][BuildShared[l.arena, tree.right]]
         ][BuildShared[arena, tree.left]]

\* The expressions of a file built one after the other in one arena.
BuildAll[arena \in Any, trees \in Any] ==
  IF trees = <<>> THEN [arena |-> arena, out |-> <<>>]
  ELSE [b \in Any |->
          [rest \in Any |-> [arena |-> rest.arena, out |-> <<b.out>> \o rest.out]
          ][BuildAll[b.arena, Tail(trees)]]
       ][Build[arena, Head(trees)]]

\* ------------------------------------------------- executor.rs: Shift

\* What a visit returns: the arena after its allocations, the visitor after
\* the visit, and the visit's Output.
Visited(arena, self, out) == [arena |-> arena, self |-> self, out |-> out]

\* A visit_lambda / visit_eval that ends in an allocation.
Allocated(n, self) == [arena |-> n.arena, self |-> self, out |-> n.out]

\* Shift::new.
Shift_new(cutoff, offset) == [cutoff |-> cutoff, offset |-> offset]

\* shifted_index with the offset taken as unsigned: a negative offset adds
\* nothing.
shifted_index_offset_unsigned(de_bruijn_index, offset) ==
  (de_bruijn_index + (IF offset < 0 THEN 0 ELSE offset)) % TERM_SPAN

\* (de_bruijn_index as i64 + offset) as u64, kept in the index bits.
shifted_index(de_bruijn_index, offset) == (de_bruijn_index + offset) % TERM_SPAN

RECURSIVE Shift_visit

\* Shift::visit_term.
Shift_visit_term(arena, self, expr, de_bruijn_index) ==
  IF de_bruijn_index < self.cutoff
  THEN Visited(arena, self, expr)
  ELSE Visited(arena, self, new_term(shifted_index(de_bruijn_index, self.offset)))

\* Shift::visit_lambda that visits the body with the cutoff it came with.
Shift_visit_lambda_cutoff_kept(arena, self, expr, body, parameter_name) ==
  [v \in Any |->
     IF v.out = body
     THEN Visited(v.arena, v.self, expr)
     ELSE Allocated(new_lambda(v.arena, parameter_name, v.out), v.self)
  ][Shift_visit[arena, self, body]]

\* Shift::visit_lambda.
Shift_visit_lambda(arena, self, expr, body, parameter_name) ==
  [v \in Any |->
     IF v.out = body
     THEN Visited(v.arena, [v.self EXCEPT !.cutoff = @ - 1], expr)
     ELSE Allocated(new_lambda(v.arena, parameter_name, v.out),
                    [v.self EXCEPT !.cutoff = @ - 1])
  ][Shift_visit[arena, [self EXCEPT !.cutoff = @ + 1], body]]

\* Shift::visit_eval.
Shift_visit_eval(arena, self, expr, left, right) ==
  [l \in Any |->
     [r \in Any |->
        IF l.out = left /\ r.out = right
        THEN Visited(r.arena, r.self, expr)
        ELSE Allocated(new_eval(r.arena, l.out, r.out), r.self)
     ][Shift_visit[l.arena, l.self, right]]
  ][Shift_visit[arena, self, left]]

\* ExprRef::visit with a Shift visitor.
Shift_visit[arena \in Any, self \in Any, expr \in Any] ==
  IF expr = Unwind THEN Visited(arena, self, Unwind)
  ELSE LET u == unpack(arena, expr)
       IN  CASE u.kind = "Term"   -> Shift_visit_term(arena, self, expr, u.de_bruijn_index)
             [] u.kind = "Lambda" -> Shift_visit_lambda(arena, self, expr, u.body, u.parameter_name)
             [] u.kind = "Eval"   -> Shift_visit_eval(arena, self, expr, u.left, u.right)

\* ----------------------------------------------- executor.rs: Replace

\* Replace::new.
Replace_new(new_value) ==
  [target |-> 1, default_expr |-> new_value, offsets |-> (1 :> new_value)]

\* get_offset_expr without the shift: the replacement is reused at every depth.
get_offset_expr_unshifted(arena, self, offset) ==
  Visited(arena, self, self.default_expr)

\* get_offset_expr that shifts the replacement on every use and caches nothing.
get_offset_expr_uncached(arena, self, offset) ==
  [v \in Any |-> Visited(v.arena, self, v.out)
  ][Shift_visit[arena, Shift_new(1, offset - 1), self.default_expr]]

\* Replace::get_offset_expr: the cached copy for this depth, made on first use.
get_offset_expr(arena, self, offset) ==
  IF offset \in DOMAIN self.offsets
  THEN Visited(arena, self, self.offsets[offset])
  ELSE [v \in Any |->
          Visited(v.arena, [self EXCEPT !.offsets = (offset :> v.out) @@ @], v.out)
       ][Shift_visit[arena, Shift_new(1, offset - 1), self.default_expr]]

RECURSIVE Replace_visit

\* Replace::visit_term.
Replace_visit_term(arena, self, expr, de_bruijn_index) ==
  IF de_bruijn_index = self.target
  THEN get_offset_expr(arena, self, self.target)
  ELSE Visited(arena, self, expr)

\* Replace::visit_lambda.
Replace_visit_lambda(arena, self, expr, body, parameter_name) ==
  [v \in Any |->
     IF v.out = body
     THEN Visited(v.arena, [v.self EXCEPT !.target = @ - 1], expr)
     ELSE Allocated(new_lambda(v.arena, parameter_name, v.out),
                    [v.self EXCEPT !.target = @ - 1])
  ][Replace_visit[arena, [self EXCEPT !.target = @ + 1], body]]

\* Replace::visit_eval that builds a new Application, changed or not.
Replace_visit_eval_always_allocates(arena, self, expr, left, right) ==
  [l \in Any |->
     [r \in Any |-> Allocated(new_eval(r.arena, l.out, r.out), r.self)
     ][Replace_visit[l.arena, l.self, right]]
  ][Replace_visit[arena, self, left]]

\* Replace::visit_eval.
Replace_visit_eval(arena, self, expr, left, right) ==
  [l \in Any |->
     [r \in Any |->
        IF l.out = left /\ r.out = right
        THEN Visited(r.arena, r.self, expr)
        ELSE Allocated(new_eval(r.arena, l.out, r.out), r.self)
     ][Replace_visit[l.arena, l.self, right]]
  ][Replace_visit[arena, self, left]]

\* ExprRef::visit with a Replace visitor.
Replace_visit[arena \in Any, self \in Any, expr \in Any] ==
  IF expr = Unwind THEN Visited(arena, self, Unwind)
  ELSE LET u == unpack(arena, expr)
       IN  CASE u.kind = "Term"   -> Replace_visit_term(arena, self, expr, u.de_bruijn_index)
             [] u.kind = "Lambda" -> Replace_visit_lambda(arena, self, expr, u.body, u.parameter_name)
             [] u.kind = "Eval"   -> Replace_visit_eval(arena, self, expr, u.left, u.right)

\* --------------------------------------------- executor.rs: Evaluator

\* Evaluator::new.
Evaluator_new == [something_changed |-> FALSE]

\* beta_step that substitutes the argument as it is, not raised by Shift(1, 1).
beta_step_argument_not_raised(arena, self, right, body) ==
  [replaced \in Any |->
     [lowered \in Any |->
        Visited(lowered.arena, [self EXCEPT !.something_changed = TRUE], lowered.out)
     ][Shift_visit[replaced.arena, Shift_new(1, -1), replaced.out]]
  ][Replace_visit[arena, Replace_new(right), body]]

\* beta_step without the final Shift(1, -1).
beta_step_not_lowered(arena, self, right, body) ==
  [shifted_right \in Any |->
     [replaced \in Any |->
        Visited(replaced.arena, [self EXCEPT !.something_changed = TRUE], replaced.out)
     ][Replace_visit[shifted_right.arena, Replace_new(shifted_right.out), body]]
  ][Shift_visit[arena, Shift_new(1, 1), right]]

\* The Lambda arm of evaluate_strong and of evaluate_weak: one beta-step on
\* Application(Lambda(body), right):
\*   shifted_right = right.visit(Shift(1, 1));
\*   body.visit(Replace(shifted_right)).visit(Shift(1, -1))
beta_step(arena, self, right, body) ==
  [shifted_right \in Any |->
     [replaced \in Any |->
        [lowered \in Any |->
           Visited(lowered.arena, [self EXCEPT !.something_changed = TRUE], lowered.out)
        ][Shift_visit[replaced.arena, Shift_new(1, -1), replaced.out]]
     ][Replace_visit[shifted_right.arena, Replace_new(shifted_right.out), body]]
  ][Shift_visit[arena, Shift_new(1, 1), right]]

RECURSIVE evaluate_strong
RECURSIVE evaluate_weak

\* eval_arm reducing the argument before the redex is fired (applicative order).
eval_arm_argument_first(l, expr, left, right) ==
  IF l.out # left
  THEN Allocated(new_eval(l.arena, l.out, right), l.self)
  ELSE [r \in Any |->
          IF r.out # right
          THEN Allocated(new_eval(r.arena, l.out, r.out), r.self)
          ELSE IF unpack(r.arena, l.out).kind = "Lambda"
          THEN beta_step(r.arena, r.self, right, unpack(r.arena, l.out).body)
          ELSE Visited(r.arena, r.self, expr)
       ][evaluate_strong[l.arena, l.self, right]]

\* eval_arm that builds a new Application, changed or not.
eval_arm_always_allocates(l, expr, left, right) ==
  IF l.out # left
  THEN Allocated(new_eval(l.arena, l.out, right), l.self)
  ELSE IF unpack(l.arena, l.out).kind = "Lambda"
  THEN beta_step(l.arena, l.self, right, unpack(l.arena, l.out).body)
  ELSE [r \in Any |-> Allocated(new_eval(r.arena, l.out, r.out), r.self)
       ][evaluate_strong[l.arena, l.self, right]]

\* The Eval arm of evaluate_strong and of evaluate_weak (the two are the
\* same code) once evaluate_weak(left) has returned l.
eval_arm(l, expr, left, right) ==
  IF l.out # left
  THEN Allocated(new_eval(l.arena, l.out, right), l.self)
  ELSE IF unpack(l.arena, l.out).kind = "Lambda"
  THEN beta_step(l.arena, l.self, right, unpack(l.arena, l.out).body)
  ELSE [r \in Any |->
          IF l.out = left /\ r.out = right
          THEN Visited(r.arena, r.self, expr)
          ELSE Allocated(new_eval(r.arena, l.out, r.out), r.self)
       ][evaluate_strong[l.arena, l.self, right]]

\* Evaluator::evaluate_weak.
evaluate_weak[arena \in Any, self \in Any, expr \in Any] ==
  LET u == unpack(arena, expr)
  IN  CASE u.kind = "Term"   -> Visited(arena, self, expr)
        [] u.kind = "Lambda" -> Visited(arena, self, expr)
        [] u.kind = "Eval"   ->
             [l \in Any |-> eval_arm(l, expr, u.left, u.right)][evaluate_weak[arena, self, u.left]]

\* The Lambda arm of evaluate_strong that leaves the body alone.
lambda_arm_weak_head(arena, self, expr, body, parameter_name) == Visited(arena, self, expr)

\* The Lambda arm of evaluate_strong that rebuilds the Lambda, changed or not.
lambda_arm_always_allocates(arena, self, expr, body, parameter_name) ==
  [b \in Any |-> Allocated(new_lambda(b.arena, parameter_name, b.out), b.self)
  ][evaluate_strong[arena, self, body]]

\* The Lambda arm of evaluate_strong.
lambda_arm(arena, self, expr, body, parameter_name) ==
  [b \in Any |->
     IF b.out = body
     THEN Visited(b.arena, b.self, expr)
     ELSE Allocated(new_lambda(b.arena, parameter_name, b.out), b.self)
  ][evaluate_strong[arena, self, body]]

\* Evaluator::evaluate_strong.
evaluate_strong[arena \in Any, self \in Any, expr \in Any] ==
  LET u == unpack(arena, expr)
  IN  CASE u.kind = "Term"   -> Visited(arena, self, expr)
        [] u.kind = "Lambda" -> lambda_arm(arena, self, expr, u.body, u.parameter_name)
        [] u.kind = "Eval"   ->
             [l \in Any |-> eval_arm(l, expr, u.left, u.right)][evaluate_weak[arena, self, u.left]]

\* ------------------------------------------------------ encode.rs

\* A string is the sequence of its characters; n copies of s in a row.
Repeat[s \in Any, n \in Any] == IF n <= 0 THEN <<>> ELSE s \o Repeat[s, n - 1]

PrintVisitor_new(zero, one) == [zero |-> zero, one |-> one]

\* PrintVisitor::visit_term: the one marker de_bruijn_index times, then zero.
\* printed is what stdout holds; the result is what it holds afterwards.
PrintVisitor_visit_term(self, printed, de_bruijn_index) ==
  printed \o Repeat[self.one, de_bruijn_index] \o self.zero

\* PrintVisitor::visit_lambda, visit_eval and the dispatch of ExprRef::visit.
PrintVisitor_visit[arena \in Any, self \in Any, printed \in Any, expr \in Any] ==
  LET u == unpack(arena, expr)
  IN  CASE u.kind = "Term"   -> PrintVisitor_visit_term(self, printed, u.de_bruijn_index)
        [] u.kind = "Lambda" ->
             PrintVisitor_visit[arena, self, printed \o self.zero \o self.zero, u.body]
        [] u.kind = "Eval"   ->
             PrintVisitor_visit[arena, self,
                                PrintVisitor_visit[arena, self, printed \o self.zero \o self.one,
                                                   u.left],
                                u.right]

ByteVisitor_new == [bits |-> <<>>, bytes |-> <<>>]

\* The closure with the bits taken from the low end of the byte upwards.
fold_step_low_bit_first(acc, bit) == (acc \div 2) + (128 * bit)

\* |acc, bit| (acc << 1) | bit on u8.
fold_step(acc, bit) == ((acc * 2) % 256) + bit

\* fold(0u8, ..) over the drained bits.
fold[bits \in Any, acc \in Any] ==
  IF bits = <<>> THEN acc ELSE fold[Tail(bits), fold_step(acc, Head(bits))]

\* ByteVisitor::push_bit.
push_bit[self \in Any, bit \in Any] ==
  LET bits == Append(self.bits, IF bit THEN 1 ELSE 0)
  IN  IF Len(bits) = 8
      THEN [bits |-> <<>>, bytes |-> Append(self.bytes, fold[bits, 0])]
      ELSE [bits |-> bits, bytes |-> self.bytes]

\* ByteVisitor::into_bytes: pad the open byte with 0 bits.
into_bytes[self \in Any] ==
  IF self.bits # <<>> THEN into_bytes[push_bit[self, FALSE]] ELSE self.bytes

\* ByteVisitor::visit_term.
ByteVisitor_visit_term[self \in Any, de_bruijn_index \in Any] ==
  IF de_bruijn_index <= 0 THEN push_bit[self, FALSE]
  ELSE ByteVisitor_visit_term[push_bit[self, TRUE], de_bruijn_index - 1]

\* ByteVisitor::visit_lambda, visit_eval and the dispatch of ExprRef::visit.
ByteVisitor_visit[arena \in Any, self \in Any, expr \in Any] ==
  LET u == unpack(arena, expr)
  IN  CASE u.kind = "Term"   -> ByteVisitor_visit_term[self, u.de_bruijn_index]
        [] u.kind = "Lambda" ->
             ByteVisitor_visit[arena, push_bit[push_bit[self, FALSE], FALSE], u.body]
        [] u.kind = "Eval"   ->
             ByteVisitor_visit[arena,
                               ByteVisitor_visit[arena, push_bit[push_bit[self, FALSE], TRUE],
                                                 u.left],
                               u.right]

\* println!().
Newline == <<"\n">>

\* ------------------------------------------------------ decode.rs

\* to_bits_iter that begins with bit 0.
to_bits_iter_low_bit_first(byte) == [k \in 1..8 |-> (byte \div (2 ^ (k - 1))) % 2 = 1]

\* to_bits_iter: the bits of a byte, bit 7 first.
to_bits_iter(byte) == [k \in 1..8 |-> (byte \div (2 ^ (8 - k))) % 2 = 1]

\* get_byte_iter: bytes.into_iter().flat_map(to_bits_iter), as the sequence
\* of the items still to come.
flat_map[bytes \in Any] ==
  IF bytes = <<>> THEN <<>> ELSE to_bits_iter(Head(bytes)) \o flat_map[Tail(bytes)]

get_byte_iter(bytes) == [kind |-> "bytes", bits |-> flat_map[bytes]]

Extractor_new(zero, one, s) == [kind |-> "text", zero |-> zero, one |-> one, s |-> s]

\* An Option<bool> and an Option<usize>.
NoItem == [some |-> FALSE, bit |-> FALSE]
Item(bit) == [some |-> TRUE, bit |-> bit]
NotFound == [some |-> FALSE, at |-> 0]

\* str::find: the byte offset of the first occurrence of pat in s.
find[s \in Any, pat \in Any] ==
  LET hits == {i \in 0..(Len(s) - Len(pat)) : SubSeq(s, i + 1, i + Len(pat)) = pat}
  IN  IF hits = {} THEN NotFound
      ELSE [some |-> TRUE, at |-> CHOOSE i \in hits : \A j \in hits : i <= j]

\* &s[from..].
SliceFrom(s, from) == SubSeq(s, from + 1, Len(s))

\* The arm of Extractor::next that the match selects: TRUE for a one.
takes_one(next_zero, next_one) ==
  CASE ~next_zero.some /\ next_one.some -> TRUE
    [] next_zero.some /\ ~next_one.some -> FALSE
    [] OTHER -> ~(next_zero.at < next_one.at)

\* Extractor::next: the item and the Extractor afterwards.
Extractor_next[self \in Any] ==
  [next_zero \in Any, next_one \in Any |->
     IF ~next_zero.some /\ ~next_one.some
     THEN [item |-> NoItem, iter |-> self]
     ELSE IF takes_one(next_zero, next_one)
     THEN [item |-> Item(TRUE),
           iter |-> [self EXCEPT !.s = SliceFrom(self.s, next_one.at + Len(self.one))]]
     ELSE [item |-> Item(FALSE),
           iter |-> [self EXCEPT !.s = SliceFrom(self.s, next_zero.at + Len(self.zero))]]
  ][find[self.s, self.zero], find[self.s, self.one]]

\* Iterator::next of the Box<dyn Iterator<Item = bool>> of DecodeArgs::execute.
iter_next[iter \in Any] ==
  IF iter.kind = "text" THEN Extractor_next[iter]
  ELSE IF iter.bits = <<>> THEN [item |-> NoItem, iter |-> iter]
  ELSE [item |-> Item(Head(iter.bits)), iter |-> [iter EXCEPT !.bits = Tail(iter.bits)]]

Decoder_new == [variable_names |-> <<>>, current_scope |-> 0]

\* format!("x{}", i + 1) in the text arena.
ParameterName(i) == Str(XBase + i + 1)

\* Decoder::get_parameter_name: names are made for i in len..=current_scope,
\* and the name of the current scope is returned.
get_parameter_name(self) ==
  LET have == Len(self.variable_names)
      want == IF have > self.current_scope + 1 THEN have ELSE self.current_scope + 1
      names == [k \in 1..want |-> IF k <= have THEN self.variable_names[k]
                                  ELSE ParameterName(k - 1)]
  IN  [self |-> [self EXCEPT !.variable_names = names], out |-> names[self.current_scope]]

\* What a decode_* method leaves behind: the allocator, the Decoder, the
\* iterator and the Option<ExprRef> returned.
Decoded(arena, self, iter, out) == [arena |-> arena, self |-> self, iter |-> iter, out |-> out]

\* An Option<ExprRef>.
None == [some |-> FALSE, expr |-> Unwind]
Some(e) == [some |-> TRUE, expr |-> e]

\* The loop of Decoder::decode_term: count the ones up to the closing zero.
read_index[iter \in Any, term_index \in Any] ==
  LET n == iter_next[iter]
  IN  CASE ~n.item.some -> [ok |-> FALSE, iter |-> n.iter, term_index |-> term_index]
        [] n.item = Item(TRUE)  -> read_index[n.iter, term_index + 1]
        [] n.item = Item(FALSE) -> [ok |-> TRUE, iter |-> n.iter, term_index |-> term_index]

\* Decoder::decode_term.
decode_term(arena, self, iter) ==
  [r \in Any |->
     IF ~r.ok THEN Decoded(arena, self, r.iter, None)
     ELSE IF r.term_index > self.current_scope THEN Decoded(arena, self, r.iter, None)
     ELSE Decoded(arena, self, r.iter, Some(new_term(r.term_index)))
  ][read_index[iter, 1]]

RECURSIVE decode_expr

\* decode_lambda without self.current_scope -= 1.
decode_lambda_scope_kept(arena, self, iter) ==
  [body \in Any |->
     IF ~body.out.some THEN body
     ELSE LET n == get_parameter_name(body.self)
              lambda == new_lambda(body.arena, n.out, body.out.expr)
          IN  Decoded(lambda.arena, n.self, body.iter, Some(lambda.out))
  ][decode_expr[arena, [self EXCEPT !.current_scope = @ + 1], iter]]

\* Decoder::decode_lambda.
decode_lambda(arena, self, iter) ==
  [body \in Any |->
     IF ~body.out.some THEN body
     ELSE LET n == get_parameter_name(body.self)
              lambda == new_lambda(body.arena, n.out, body.out.expr)
          IN  Decoded(lambda.arena, [n.self EXCEPT !.current_scope = @ - 1], body.iter,
                      Some(lambda.out))
  ][decode_expr[arena, [self EXCEPT !.current_scope = @ + 1], iter]]

\* Decoder::decode_eval.
decode_eval(arena, self, iter) ==
  [left \in Any |->
     IF ~left.out.some THEN left
     ELSE [right \in Any |->
             IF ~right.out.some THEN right
             ELSE LET eval == new_eval(right.arena, left.out.expr, right.out.expr)
                  IN  Decoded(eval.arena, right.self, right.iter, Some(eval.out))
          ][decode_expr[left.arena, left.self, left.iter]]
  ][decode_expr[arena, self, iter]]

\* Decoder::decode_expr.
decode_expr[arena \in Any, self \in Any, iter \in Any] ==
  LET n == iter_next[iter]
      m == iter_next[n.iter]
  IN  IF ~n.item.some THEN Decoded(arena, self, n.iter, None)
      ELSE IF n.item.bit THEN decode_term(arena, self, n.iter)
      ELSE IF ~m.item.some THEN Decoded(arena, self, m.iter, None)
      ELSE IF m.item.bit THEN decode_eval(arena, self, m.iter)
      ELSE decode_lambda(arena, self, m.iter)

\* ------------------------------------------- expr.rs: Display for ExprRef

\* a - b on usize.  With overflow checks (the dev profile) the subtraction
\* panics when a < b; without them (the release profile) it wraps.  The
\* span of usize is scaled like that of the handles: twice TERM_SPAN.
usize_sub(a, b, overflow_checks) ==
  IF a >= b THEN [panic |-> FALSE, value |-> a - b]
  ELSE IF overflow_checks THEN [panic |-> TRUE, value |-> 0]
  ELSE [panic |-> FALSE, value |-> (TERM_SPAN - (b - a)) + TERM_SPAN]

\* A fmt::Formatter: the flags # and + or -, and what was written to it.
Formatter(alternate, sign) == [alternate |-> alternate, sign |-> sign, out |-> <<>>]

\* The Visitor of fmt, in a build with or without overflow checks.
Display_new(f, overflow_checks) ==
  [f |-> f, lambda_parameters |-> <<>>, shadowed_variables |-> <<>>,
   overflow_checks |-> overflow_checks, panic |-> FALSE]

\* write!(self.f, ..).
write(self, s) == [self EXCEPT !.f.out = @ \o s]

\* for _ in 0..count { write!(self.f, "′") }.
Primes(count) == [k \in 1..count |-> "'"]

\* Visitor::visit_term of Display.
Display_visit_term(self, de_bruijn_index) ==
  IF self.f.sign = "+" THEN write(self, <<ToString(de_bruijn_index)>>)
  ELSE IF self.f.sign = "-" THEN write(self, <<"-", ToString(de_bruijn_index)>>)
  ELSE LET at == usize_sub(Len(self.lambda_parameters), de_bruijn_index, self.overflow_checks)
       IN  IF at.panic THEN [self EXCEPT !.panic = TRUE]
           ELSE IF at.value < Len(self.lambda_parameters)
           THEN write(self, <<self.lambda_parameters[at.value + 1][1]>>
                            \o Primes(self.lambda_parameters[at.value + 1][2]))
           ELSE write(self, <<ToString(de_bruijn_index)>>)

\* shadowed_variables.entry(name).and_modify(|c| *c += 1).or_insert(0).
entered(shadowed_variables, name) ==
  IF name \in DOMAIN shadowed_variables
  THEN [shadowed_variables EXCEPT ![name] = @ + 1]
  ELSE (name :> 0) @@ shadowed_variables

\* entry(name).and_modify(|c| if *c > 0 { *c -= 1 }).or_default(), and the
\* entry removed when the result is 0.
exited(shadowed_variables, name) ==
  IF name \in DOMAIN shadowed_variables /\ shadowed_variables[name] > 1
  THEN [shadowed_variables EXCEPT ![name] = @ - 1]
  ELSE [n \in DOMAIN shadowed_variables \ {name} |-> shadowed_variables[n]]

\* Visitor::visit_lambda of Display up to body.visit(self).
Display_enter_lambda(self, parameter_name) ==
  LET shadowed == entered(self.shadowed_variables, parameter_name)
      count == shadowed[parameter_name]
  IN  [write(self, <<IF self.f.alternate THEN "λ" ELSE "\\", parameter_name>>
                   \o Primes(count) \o <<".">>)
       EXCEPT !.shadowed_variables = shadowed,
              !.lambda_parameters = Append(@, <<parameter_name, count>>)]

\* Visitor::visit_lambda of Display after body.visit(self).
Display_leave_lambda(self, parameter_name) ==
  [self EXCEPT !.lambda_parameters = SubSeq(@, 1, Len(@) - 1),
               !.shadowed_variables = exited(@, parameter_name)]

\* Visitor::visit_lambda, visit_eval and the dispatch of ExprRef::visit; a
\* panic unwinds through every caller.
Display_visit[arena \in Any, self \in Any, expr \in Any] ==
  LET u == unpack(arena, expr)
  IN  CASE u.kind = "Term"   -> Display_visit_term(self, u.de_bruijn_index)
        [] u.kind = "Lambda" ->
             [body \in Any |->
                IF body.panic THEN body
                ELSE Display_leave_lambda(body, TextData[u.parameter_name.ptr])
             ][Display_visit[arena,
                             Display_enter_lambda(self, TextData[u.parameter_name.ptr]),
                             u.body]]
        [] u.kind = "Eval"   ->
             [l \in Any |->
                IF l.panic THEN l
                ELSE [r \in Any |-> IF r.panic THEN r ELSE write(r, <<")">>)
                     ][Display_visit[arena, write(l, <<" ">>), u.right]]
             ][Display_visit[arena, write(self, <<"(">>), u.left]]

\* ------------------------------------------------------ symbol_table.rs

\* SymbolTable::new.
SymbolTable_new(globals, numbers) ==
  [globals |-> globals, numbers |-> numbers, assign_scopes |-> <<>>, eval_scopes |-> <<>>,
   messages |-> <<>>]

\* CompilerMessages::warning and CompilerMessages::error: the message
\* pushed (its line number is looked up from the offset).
warning(self, message, offset) ==
  [self EXCEPT !.messages = Append(@, [level |-> "Warning", message |-> message,
                                       offset |-> offset])]

error(self, message, offset) ==
  [self EXCEPT !.messages = Append(@, [level |-> "Error", message |-> message,
                                       offset |-> offset])]

\* CompilerMessages::has_errors.
has_errors(self) == \E k \in 1..Len(self.messages) : self.messages[k].level = "Error"

\* declare_global that overwrites the earlier binding.
declare_global_last_wins(self, name, expr, offset) ==
  IF name \in DOMAIN self.globals
  THEN error([self EXCEPT !.globals = [@ EXCEPT ![name] = expr]],
             <<"duplicate variable", name>>, offset)
  ELSE [self EXCEPT !.globals = (name :> expr) @@ @]

\* SymbolTable::declare_global.
declare_global(self, name, expr, offset) ==
  IF name \in DOMAIN self.globals
  THEN error(self, <<"duplicate variable", name>>, offset)
  ELSE [self EXCEPT !.globals = (name :> expr) @@ @]

\* scopes.iter().rev().zip(1u64..).filter_map(..).next(): an Option<u64>.
found_index(scopes, name) ==
  LET hits == {index \in 1..Len(scopes) : scopes[Len(scopes) + 1 - index] = name}
  IN  IF hits = {} THEN [some |-> FALSE, index |-> 0]
      ELSE [some |-> TRUE, index |-> CHOOSE i \in hits : \A j \in hits : i <= j]

\* build_assign_term that looks the name up among the globals first.
build_assign_term_globals_first(self, name, offset) ==
  IF name \in DOMAIN self.globals
  THEN [self |-> self, out |-> self.globals[name]]
  ELSE IF found_index(self.assign_scopes, name).some
  THEN [self |-> self, out |-> new_term(found_index(self.assign_scopes, name).index)]
  ELSE [self |-> error(self, <<"unknown term", name>>, offset), out |-> new_term(1)]

\* SymbolTable::build_assign_term: the SymbolTable afterwards and the handle.
build_assign_term(self, name, offset) ==
  IF found_index(self.assign_scopes, name).some
  THEN [self |-> self, out |-> new_term(found_index(self.assign_scopes, name).index)]
  ELSE IF name \in DOMAIN self.globals
  THEN [self |-> self, out |-> self.globals[name]]
  ELSE [self |-> error(self, <<"unknown term", name>>, offset), out |-> new_term(1)]

\* Vec::contains.
contains(scopes, name) == \E k \in 1..Len(scopes) : scopes[k] = name

\* Vec::pop, for its effect on the Vec.
pop(scopes) == IF scopes = <<>> THEN scopes ELSE SubSeq(scopes, 1, Len(scopes) - 1)

\* start_assign_lambda that reports the shadowed name as an error.
start_assign_lambda_shadow_is_error(self, name, offset) ==
  [(IF contains(self.assign_scopes, name)
    THEN error(self, <<"parameter shadows outer parameter", name>>, offset)
    ELSE IF name \in DOMAIN self.globals
    THEN error(self, <<"parameter shadows variable", name>>, offset)
    ELSE self) EXCEPT !.assign_scopes = Append(@, name)]

\* SymbolTable::start_assign_lambda.
start_assign_lambda(self, name, offset) ==
  [(IF contains(self.assign_scopes, name)
    THEN warning(self, <<"parameter shadows outer parameter", name>>, offset)
    ELSE IF name \in DOMAIN self.globals
    THEN warning(self, <<"parameter shadows variable", name>>, offset)
    ELSE self) EXCEPT !.assign_scopes = Append(@, name)]

\* SymbolTable::build_assign_lambda: the names folded from the last to the
\* first, each popping a scope and wrapping the body in a Lambda.
build_assign_lambda[arena \in Any, self \in Any, names \in Any, body \in Any] ==
  IF names = <<>> THEN [arena |-> arena, self |-> self, out |-> body]
  ELSE [lambda \in Any |->
          build_assign_lambda[lambda.arena, [self EXCEPT !.assign_scopes = pop(@)],
                              pop(names), lambda.out]
       ][new_lambda(arena, StrOf(names[Len(names)]), body)]

\* SymbolTable::build_assign_eval: the arena afterwards and the handle.
build_assign_eval[arena \in Any, left \in Any, params \in Any] ==
  IF params = <<>> THEN [arena |-> arena, out |-> left]
  ELSE [eval \in Any |-> build_assign_eval[eval.arena, eval.out, Tail(params)]
       ][new_eval(arena, left, Head(params))]

\* The while loop of build_number: the numeral body is grown and cached
\* until numbers[number] exists.
grow_numbers[arena \in Any, numbers \in Any, lambda_number \in Any, number \in Any] ==
  IF Len(numbers) <= number
  THEN [eval \in Any |-> grow_numbers[eval.arena, Append(numbers, eval.out), eval.out, number]
       ][new_eval(arena, new_term(2), lambda_number)]
  ELSE [arena |-> arena, numbers |-> numbers, lambda_number |-> lambda_number]

\* build_number that grows the body from the entry for 0 every time.
build_number_from_zero(arena, self, number) ==
  LET numbers == IF self.numbers = <<>> THEN <<new_term(1)>> ELSE self.numbers
      grown == IF number + 1 <= Len(numbers)
               THEN [arena |-> arena, numbers |-> numbers, lambda_number |-> numbers[number + 1]]
               ELSE grow_numbers[arena, <<numbers[1]>>, numbers[1], number]
      x == new_lambda(grown.arena, StrOf("x"), grown.lambda_number)
      f == new_lambda(x.arena, StrOf("f"), x.out)
  IN  [arena |-> f.arena, self |-> [self EXCEPT !.numbers = grown.numbers], out |-> f.out]

\* SymbolTable::build_number.
build_number(arena, self, number) ==
  LET numbers == IF self.numbers = <<>> THEN <<new_term(1)>> ELSE self.numbers
      grown == grow_numbers[arena, numbers,
                            IF number + 1 <= Len(numbers) THEN numbers[number + 1]
                            ELSE numbers[Len(numbers)],
                            number]
      x == new_lambda(grown.arena, StrOf("x"), grown.lambda_number)
      f == new_lambda(x.arena, StrOf("f"), x.out)
  IN  [arena |-> f.arena, self |-> [self EXCEPT !.numbers = grown.numbers], out |-> f.out]

\* SymbolTable::build_eval_term.
build_eval_term(self, name, offset) ==
  IF found_index(self.eval_scopes, name).some
  THEN [self |-> self, out |-> new_term(found_index(self.eval_scopes, name).index)]
  ELSE IF name \in DOMAIN self.globals
  THEN [self |-> self, out |-> self.globals[name]]
  ELSE [self |-> error(self, <<"unknown term", name>>, offset), out |-> new_term(1)]

\* SymbolTable::start_eval_lambda.
start_eval_lambda(self, name, offset) ==
  [(IF contains(self.eval_scopes, name)
    THEN warning(self, <<"parameter shadows outer parameter", name>>, offset)
    ELSE IF name \in DOMAIN self.globals
    THEN warning(self, <<"parameter shadows variable", name>>, offset)
    ELSE self) EXCEPT !.eval_scopes = Append(@, name)]

\* SymbolTable::build_eval_lambda.
build_eval_lambda[arena \in Any, self \in Any, names \in Any, body \in Any] ==
  IF names = <<>> THEN [arena |-> arena, self |-> self, out |-> body]
  ELSE [lambda \in Any |->
          build_eval_lambda[lambda.arena, [self EXCEPT !.eval_scopes = pop(@)],
                            pop(names), lambda.out]
       ][new_lambda(arena, StrOf(names[Len(names)]), body)]

\* SymbolTable::build_eval_eval.
build_eval_eval[arena \in Any, left \in Any, params \in Any] ==
  IF params = <<>> THEN [arena |-> arena, out |-> left]
  ELSE [eval \in Any |-> build_eval_eval[eval.arena, eval.out, Tail(params)]
       ][new_eval(arena, left, Head(params))]

\* ------------------------------------------------------------- the state

VARIABLES
  arena,          \* the cells allocated so far (assignment and evaluation arena)
  input,          \* the handle passed to the running evaluate call
  with_abort,     \* TRUE: the call is evaluate_with_abort, FALSE: evaluate
  pc,             \* position of the call: "check", "pass", "done", "panic", "idle"
  expr,           \* the local expr of the outer loop
  evaluator,      \* the Evaluator (its something_changed field)
  step,           \* the loop counter of the outer loop
  result,         \* what the call returned
  calls,          \* number of evaluate calls made so far
  abort,          \* the AtomicBool ABORT_EXECUTION
  args,           \* EncodeArgs / DecodeArgs: binary, zero_width, zero, one
  stdout,         \* what encode wrote to stdout, which decode reads
  allocator,      \* the arena of the decode process
  repl,           \* position of Repl::run: "readline", "eval", "exited", "failed", "off"
  ctrl_c_should_exit,  \* the local of Repl::run
  readlines,      \* the latest results of editor.readline, oldest first
  console,        \* what the REPL printed last
  visitor,        \* the Shift, Replace or Display visitor of the latest visit
  trail,          \* the visits or the Allocator calls made so far, oldest first
  symbol_table,   \* the SymbolTable: globals, numbers, assign_scopes, eval_scopes, messages
  code,           \* the statements of the file that load_code is given
  parsed,         \* how many calls into the symbol table the parser has made
  values,         \* the parser's stack of handles
  to_evaluate,    \* the expressions a load returned that are still to be evaluated
  byte_visitor,   \* the ByteVisitor
  pushed          \* the bits given to push_bit so far

evalVars == <<arena, input, with_abort, pc, expr, evaluator, step, result, calls, abort>>

codecVars == <<args, stdout, allocator>>

replVars == <<repl, ctrl_c_should_exit, readlines, console>>

visitVars == <<visitor, trail>>

symbolVars == <<symbol_table, code, parsed, values, to_evaluate>>

byteVars == <<byte_visitor, pushed>>

vars == <<evalVars, codecVars, replVars, visitVars, symbolVars, byteVars>>

\* The clap defaults of --binary, --zero-width, --zero and --one.
DefaultArgs == [binary |-> FALSE, zero_width |-> FALSE, zero |-> <<"0">>, one |-> <<"1">>]

\* No encode or decode command is run.
NoCodec == args = DefaultArgs /\ stdout = <<>> /\ allocator = <<>>

\* No REPL is run.
NoRepl == repl = "off" /\ ctrl_c_should_exit = FALSE /\ readlines = <<>> /\ console = ""

\* No visitor is run on its own.
NoVisit == visitor = <<>> /\ trail = <<>>

\* No SymbolTable is in use and nothing is loaded.
NoSymbols ==
  symbol_table = <<>> /\ code = <<>> /\ parsed = 0 /\ values = <<>> /\ to_evaluate = <<>>

\* No ByteVisitor is fed bit by bit.
NoBytes == byte_visitor = <<>> /\ pushed = <<>>

\* ------------------------------------------------------ input terms

Omega == App(Lam("x", App(Var(1), Var(1))), Lam("x", App(Var(1), Var(1))))

\* (\x.\y.y) ((\x.x x) (\x.x x))
DiscardOmega == App(Lam("x", Lam("y", Var(1))), Omega)

\* (\x. x x x) (\x. x x x): grows with every step.
Grow == App(Lam("x", App(App(Var(1), Var(1)), Var(1))),
            Lam("x", App(App(Var(1), Var(1)), Var(1))))

\* S K K with S = \x.\y.\z. x z (y z) and K = \x.\y.x.
CombK == Lam("x", Lam("y", Var(2)))
CombS == Lam("x", Lam("y", Lam("z", App(App(Var(3), Var(1)), App(Var(2), Var(1))))))
SKK == App(App(CombS, CombK), CombK)

\* \f. (\x.\y. x (f y)) (\z. f z): a redex under a binder whose argument
\* and body both mention the outer binder.
UnderBinder == Lam("f", App(Lam("x", Lam("y", App(Var(2), App(Var(3), Var(1))))),
                            Lam("z", App(Var(2), Var(1)))))

\* 2 (\x.x) 1 with open head: 1 ((\x. x) 2) ((\y. y y) (\z. 3)).
OpenArgs == App(App(Var(1), App(Lam("x", Var(1)), Var(2))),
                App(Lam("y", App(Var(1), Var(1))), Lam("z", Var(3))))

\* (\x.\x. 2 3) (\y. 1 2): an open redex.
OpenRedex == App(Lam("x", Lam("x", App(Var(2), Var(3)))), Lam("y", App(Var(1), Var(2))))

Samples == {Omega, DiscardOmega, Grow, SKK, UnderBinder, OpenArgs, OpenRedex}

Redexes == {App(Lam("x", b), x) : b \in TreesUpTo(MaxPart, MaxIndex + 1, {"x"}),
                                  x \in TreesUpTo(MaxPart, MaxIndex, {"y"})}

Inputs == TreesUpTo(MaxNodes, MaxIndex, {"x"}) \cup Redexes \cup Samples

\* ------------------------------------------------ the evaluate call

\* Executor::evaluate / Executor::evaluate_with_abort: a fresh Evaluator and
\* the entry of the outer loop.
StartCall(e, wa) ==
  /\ input' = e
  /\ with_abort' = wa
  /\ expr' = e
  /\ evaluator' = Evaluator_new
  /\ step' = 0
  /\ result' = None
  /\ calls' = calls + 1
  /\ pc' = IF wa THEN "check" ELSE "pass"

\* evaluate_with_abort that tests the flag but goes on all the same.
LoadAbort_goes_on ==
  /\ pc = "check"
  /\ abort \/ step < MaxSteps
  /\ pc' = "pass"
  /\ UNCHANGED <<arena, input, with_abort, expr, evaluator, step, result, calls, abort, codecVars, replVars, visitVars, symbolVars, byteVars>>

\* evaluate_with_abort: abort.load(Ordering::Relaxed) at the top of an iteration.
LoadAbort ==
  /\ pc = "check"
  /\ abort \/ step < MaxSteps
  /\ IF abort
     THEN pc' = "done" /\ result' = None
     ELSE pc' = "pass" /\ result' = result
  /\ UNCHANGED <<arena, input, with_abort, expr, evaluator, step, calls, abort, codecVars, replVars, visitVars, symbolVars, byteVars>>

\* The pass of a loop that loads the flag a second time, after the pass.
Pass_loads_abort_again ==
  /\ pc = "pass"
  /\ with_abort \/ step < MaxSteps
  /\ \E r \in {evaluate_strong[arena, [evaluator EXCEPT !.something_changed = FALSE], expr]} :
         /\ arena' = r.arena
         /\ expr' = r.out
         /\ evaluator' = r.self
         /\ IF r.out = Unwind
            THEN pc' = "panic" /\ result' = result /\ step' = step
            ELSE IF with_abort /\ abort
            THEN pc' = "done" /\ result' = None /\ step' = step
            ELSE IF ~r.self.something_changed
            THEN pc' = "done" /\ result' = Some(r.out) /\ step' = step
            ELSE /\ pc' = IF with_abort THEN "check" ELSE "pass"
                 /\ result' = result
                 /\ step' = step + 1
  /\ UNCHANGED <<input, with_abort, calls, abort, codecVars, replVars, visitVars, symbolVars, byteVars>>

\* One pass of the outer loop of evaluate and of evaluate_with_abort:
\* something_changed = false; expr = evaluate_strong(expr); break if nothing changed.
Pass ==
  /\ pc = "pass"
  /\ with_abort \/ step < MaxSteps
  /\ \E r \in {evaluate_strong[arena, [evaluator EXCEPT !.something_changed = FALSE], expr]} :
         /\ arena' = r.arena
         /\ expr' = r.out
         /\ evaluator' = r.self
         /\ IF r.out = Unwind
            THEN pc' = "panic" /\ result' = result /\ step' = step
            ELSE IF ~r.self.something_changed
            THEN pc' = "done" /\ result' = Some(r.out) /\ step' = step
            ELSE /\ pc' = IF with_abort THEN "check" ELSE "pass"
                 /\ result' = result
                 /\ step' = step + 1
  /\ UNCHANGED <<input, with_abort, calls, abort, codecVars, replVars, visitVars, symbolVars, byteVars>>

\* The Ctrl+C handler installed by Repl::run: abort.store(true).
SetAbort ==
  /\ with_abort
  /\ pc \in {"check", "pass"} \/ repl \in {"readline", "eval"}
  /\ ~abort
  /\ abort' = TRUE
  /\ UNCHANGED <<arena, input, with_abort, pc, expr, evaluator, step, result, calls, codecVars, replVars, visitVars, symbolVars, byteVars>>

\* The returned normal form is evaluated once more (encode -e after run,
\* or the same expression entered again).
EvaluateAgain ==
  /\ pc = "done"
  /\ result.some
  /\ calls = 1
  /\ StartCall(result.expr, with_abort)
  /\ UNCHANGED <<arena, abort, codecVars, replVars, visitVars, symbolVars, byteVars>>

InitEval ==
  \E t \in Inputs, wa \in BOOLEAN, ab \in BOOLEAN, shared \in BOOLEAN :
    \E b \in {IF shared THEN BuildShared[<<>>, t] ELSE Build[<<>>, t]} :
        /\ arena = b.arena
        /\ input = b.out
        /\ with_abort = wa
        /\ expr = b.out
        /\ evaluator = Evaluator_new
        /\ step = 0
        /\ result = None
        /\ calls = 1
        /\ abort = (wa /\ ab)
        /\ pc = IF wa THEN "check" ELSE "pass"
        /\ NoCodec
        /\ NoRepl
        /\ NoVisit
        /\ NoSymbols
        /\ NoBytes

NextEval == LoadAbort \/ Pass \/ SetAbort \/ EvaluateAgain

SpecEval == InitEval /\ [][NextEval]_vars

\* The call runs on the caller's thread, which keeps executing: a pass or a
\* load that can be taken is taken.
FairSpecEval == SpecEval /\ WF_vars(Pass) /\ WF_vars(LoadAbort)

\* ------------------------------------- reference de Bruijn reduction

\* No Application has a Lambda in function position, at any depth.
BetaNormal[tree \in Any] ==
  CASE tree.kind = "Term"   -> TRUE
    [] tree.kind = "Lambda" -> BetaNormal[tree.body]
    [] tree.kind = "Eval"   -> /\ tree.left.kind # "Lambda"
                               /\ BetaNormal[tree.left]
                               /\ BetaNormal[tree.right]

\* The free variables of a nameless tree (index above the depth) raised by d.
Raise[tree \in Any, d \in Any, depth \in Any] ==
  CASE tree.kind = "Term"   -> IF tree.i > depth THEN Var(tree.i + d) ELSE tree
    [] tree.kind = "Lambda" -> [kind |-> "Lambda", body |-> Raise[tree.body, d, depth + 1]]
    [] tree.kind = "Eval"   -> App(Raise[tree.left, d, depth], Raise[tree.right, d, depth])

\* b with the variable bound by the consumed Lambda (index k + 1 under k inner
\* Lambdas) replaced by x raised by k, every other free variable lowered by
\* one and the variables bound inside b kept.
RefSubst[b \in Any, x \in Any, k \in Any] ==
  CASE b.kind = "Term"   -> IF b.i = k + 1 THEN Raise[x, k, 0]
                            ELSE IF b.i > k + 1 THEN Var(b.i - 1)
                            ELSE b
    [] b.kind = "Lambda" -> [kind |-> "Lambda", body |-> RefSubst[b.body, x, k + 1]]
    [] b.kind = "Eval"   -> App(RefSubst[b.left, x, k], RefSubst[b.right, x, k])

RefBeta(b, x) == RefSubst[b, x, 0]

\* One step of normal-order reduction: the leftmost-outermost redex fired.
\* Only applied to trees that are not beta-normal.
RefStep[tree \in Any] ==
  CASE tree.kind = "Lambda" -> [kind |-> "Lambda", body |-> RefStep[tree.body]]
    [] tree.kind = "Eval"   ->
         IF tree.left.kind = "Lambda" THEN RefBeta(tree.left.body, tree.right)
         ELSE IF ~BetaNormal[tree.left] THEN App(RefStep[tree.left], tree.right)
         ELSE App(tree.left, RefStep[tree.right])

\* The nameless tree a handle denotes.
Shape(a, e) == Strip[TreeOf[a, e]]

\* A step of the Pass action (SetAbort is the other step taken at "pass").
PassStep == pc = "pass" /\ abort' = abort /\ vars' # vars

\* ------------------------------------------------------------ claims

\* C3: whenever evaluate, or evaluate_with_abort returning a term, returns,
\* the returned term is in beta-normal form: no Application has a Lambda in
\* function position at any depth.
C3_ReturnsNormalForm ==
  (pc = "done" /\ result.some) => BetaNormal[TreeOf[arena, result.expr]]

\* C3 witness: evaluate_with_abort returned, after two beta-steps under a
\* binder, the term \f.\y. f (f y).
C3_Witness ==
  /\ pc = "done" /\ result.some /\ with_abort /\ step = 2
  /\ Shape(arena, result.expr) = Strip[Lam("f", Lam("y", App(Var(2), App(Var(2), Var(1)))))]

\* C4: every pass that changes the term turns it into the result of one
\* normal-order step (the leftmost-outermost redex fired) of the reference
\* reducer, up to parameter names; a pass that changes nothing was given a
\* beta-normal term.
C4_NormalOrder ==
  [][PassStep =>
       /\ expr' # Unwind
       /\ IF evaluator'.something_changed
          THEN /\ ~BetaNormal[Shape(arena, expr)]
               /\ Shape(arena', expr') = RefStep[Shape(arena, expr)]
          ELSE BetaNormal[Shape(arena, expr)] /\ Shape(arena', expr') = Shape(arena, expr)]_vars

\* C4 witness: a third pass has fired a redex that was not at the root (the
\* term before it is an Application whose function is not a Lambda).
C4_Witness ==
  /\ step = 3
  /\ calls = 1
  /\ TreeOf[arena, input].kind = "Eval"
  /\ TreeOf[arena, input].left.kind = "Eval"

\* C6: a beta-step on Application(Lambda(b), x) returns b with the bound
\* variable (index k + 1 under k inner Lambdas) replaced by x raised by k,
\* every other free variable lowered by one and bound variables unchanged,
\* for closed and open b and x.
C6_BetaStep ==
  (calls = 1 /\ step = 1 /\ TreeOf[arena, input].kind = "Eval"
     /\ TreeOf[arena, input].left.kind = "Lambda")
  => Shape(arena, expr) = RefBeta(Strip[TreeOf[arena, input].left.body],
                                  Strip[TreeOf[arena, input].right])

\* C6 witness: the step (\x.\x. 2 3) (\y. 1 2) has been taken: the bound
\* variable sits under an inner Lambda next to another free variable, and
\* the argument has a bound and a free variable.
C6_Witness ==
  /\ calls = 1 /\ step = 1
  /\ Shape(arena, input) = Strip[App(Lam("x", Lam("x", App(Var(2), Var(3)))),
                                     Lam("y", App(Var(1), Var(2))))]

\* C7: if the term given to the normalizer is closed, the current term is
\* closed after every pass of the outer loop.
C7_ClosednessPreserved ==
  Closed(TreeOf[arena, input]) => (expr # Unwind /\ Closed(TreeOf[arena, expr]))

\* C7 witness: a closed term after a beta-step fired under a binder with an
\* argument that mentions the binder.
C7_Witness ==
  /\ step >= 1
  /\ Shape(arena, input) = Strip[UnderBinder]

\* C8: evaluating a returned normal form again returns the very same handle
\* after one pass in which something_changed stays false and no cell is
\* allocated.
C8_NormalFormFixpoint ==
  [][(calls = 2 /\ PassStep) =>
       /\ pc' = "done"
       /\ result' = Some(input)
       /\ ~evaluator'.something_changed
       /\ step' = 0
       /\ arena' = arena]_vars

\* C8 witness: the second evaluate call has returned, and the normal form it
\* was given holds cells (Lambdas and Applications) made by beta-steps.
C8_Witness ==
  /\ calls = 2 /\ pc = "done" /\ result.some /\ ~with_abort
  /\ Shape(arena, input) = Strip[Lam("f", Lam("y", App(Var(2), App(Var(2), Var(1)))))]

\* The reference reducer reaches a beta-normal tree in at most k steps.
RefNormalizesWithin[tree \in Any, k \in Any] ==
  \/ BetaNormal[tree]
  \/ k > 0 /\ RefNormalizesWithin[RefStep[tree], k - 1]

\* C5: evaluate terminates on every term that has a beta-normal form (here:
\* one that normal-order reduction reaches within the explored number of
\* steps), also when a discarded argument has none: (\x.\y.y) Omega is
\* reduced to \y.y.
C5_Terminates ==
  /\ (calls = 1 /\ ~with_abort /\ RefNormalizesWithin[Shape(arena, input), MaxSteps - 1])
       ~> (pc = "done" /\ result.some)
  /\ [](  (Shape(arena, input) = Strip[DiscardOmega] /\ pc = "done" /\ result.some)
         => Shape(arena, result.expr) = Strip[Lam("y", Var(1))])

\* C5 witness: evaluate has returned \y.y for (\x.\y.y) Omega.
C5_Witness ==
  /\ ~with_abort /\ calls = 1 /\ pc = "done" /\ result.some
  /\ Shape(arena, input) = Strip[DiscardOmega]

\* C9 as stated: if the flag is set during evaluate_with_abort (and stays
\* set), the call returns the sentinel None.
C9_AbortedReturnsNone ==
  (with_abort /\ pc = "done" /\ abort) => ~result.some

\* C9 amended: once the flag is set, a load of it returns None at once; at
\* most the one pass whose load came before the store still runs, and after
\* it the call either is back at the load or returns the normal form because
\* that pass changed nothing; the call returns in either case; Omega never
\* returns a term, so it returns None once the flag is set.
C9_BoundedCancellation ==
  /\ [][(with_abort /\ abort /\ pc = "check" /\ vars' # vars)
          => (pc' = "done" /\ result' = None /\ arena' = arena)]_vars
  /\ [][(with_abort /\ abort /\ PassStep)
          => \/ pc' = "check"
             \/ /\ pc' = "done"
                /\ result' = Some(expr)
                /\ BetaNormal[TreeOf[arena, expr]]]_vars
  /\ (with_abort /\ abort) ~> (pc = "done")
  /\ []((with_abort /\ Shape(arena, input) = Strip[Omega] /\ pc = "done") => result = None)

\* C9 witness: evaluate_with_abort of Omega returned None after the flag was
\* set in the middle of the third iteration.
C9_Witness ==
  /\ with_abort /\ abort /\ pc = "done" /\ result = None /\ step = 3
  /\ Shape(arena, input) = Strip[Omega]

\* ------------------------------------ the encode and decode commands

\* Values of --zero and --one: single characters, pairs of characters (one
\* marker may be the beginning or the end of the other), and the defaults.
Markers == {<<"a">>, <<"b">>, <<"a", "a">>, <<"a", "b">>, <<"b", "a">>, <<"b", "b">>,
            <<"0">>, <<"1">>}

\* --binary conflicts with --zero, --one and --zero-width.
CodecArgs ==
  {[DefaultArgs EXCEPT !.binary = TRUE]}
    \cup [binary : {FALSE}, zero_width : BOOLEAN, zero : Markers, one : Markers]

\* The closed terms that a global can be bound to.
CodecTerms ==
  {t \in TreesUpTo(MaxNodes, MaxIndex, {"x"}) : Closed(t)} \cup {Omega}

\* EncodeArgs::execute without --evaluate: the sanity check, then the term
\* is written to stdout as bytes or as text with its closing newline.
Encode ==
  /\ pc = "encode"
  /\ IF args.zero = args.one
     THEN pc' = "failed" /\ stdout' = stdout
     ELSE /\ pc' = "decode"
          /\ stdout' =
               IF args.binary
               THEN into_bytes[ByteVisitor_visit[arena, ByteVisitor_new, input]]
               ELSE PrintVisitor_visit[arena, PrintVisitor_new(args.zero, args.one), <<>>, input]
                      \o (IF args.zero_width THEN <<>> ELSE Newline)
  /\ UNCHANGED <<arena, input, with_abort, expr, evaluator, step, result, calls, abort,
                 args, allocator, replVars, visitVars, symbolVars, byteVars>>

\* DecodeArgs::execute without --evaluate, reading what encode wrote.
Decode ==
  /\ pc = "decode"
  /\ IF args.zero = args.one
     THEN pc' = "failed" /\ result' = result /\ allocator' = allocator
     ELSE \E d \in {decode_expr[<<>>, Decoder_new,
                                IF args.binary THEN get_byte_iter(stdout)
                                ELSE Extractor_new(args.zero, args.one, stdout)]} :
            /\ allocator' = d.arena
            /\ result' = d.out
            /\ pc' = IF d.out.some THEN "decoded" ELSE "failed"
  /\ UNCHANGED <<arena, input, with_abort, expr, evaluator, step, calls, abort, args, stdout, replVars, visitVars, symbolVars, byteVars>>

InitCodec ==
  \E t \in CodecTerms, a \in CodecArgs :
    \E b \in {Build[<<>>, t]} :
        /\ arena = b.arena
        /\ input = b.out
        /\ expr = b.out
        /\ args = a
        /\ stdout = <<>>
        /\ allocator = <<>>
        /\ pc = "encode"
        /\ with_abort = FALSE
        /\ evaluator = Evaluator_new
        /\ step = 0
        /\ result = None
        /\ calls = 0
        /\ abort = FALSE
        /\ NoRepl
        /\ NoVisit
        /\ NoSymbols
        /\ NoBytes

NextCodec == Encode \/ Decode

SpecCodec == InitCodec /\ [][NextCodec]_vars

\* The Binary Lambda Calculus code of a tree, as bits 0 and 1.
BLC[tree \in Any] ==
  CASE tree.kind = "Term"   -> [k \in 1..tree.i |-> 1] \o <<0>>
    [] tree.kind = "Lambda" -> <<0, 0>> \o BLC[tree.body]
    [] tree.kind = "Eval"   -> <<0, 1>> \o BLC[tree.left] \o BLC[tree.right]

\* Bit k (from 1) of a byte sequence, the high bit of each byte first.
BitOf(bytes, k) == (bytes[((k - 1) \div 8) + 1] \div (2 ^ (7 - ((k - 1) % 8)))) % 2

\* The bytes are the bits, high bit first, with 0 bits filling the last byte.
PacksTo[bytes \in Any, bits \in Any] ==
  /\ Len(bytes) * 8 >= Len(bits)
  /\ Len(bytes) * 8 < Len(bits) + 8
  /\ \A k \in 1..(Len(bytes) * 8) : BitOf(bytes, k) = IF k <= Len(bits) THEN bits[k] ELSE 0

\* The bits as the characters 0 and 1.
Spelled[bits \in Any] == [k \in 1..Len(bits) |-> IF bits[k] = 1 THEN "1" ELSE "0"]

\* The decode command printed a term of the same de Bruijn structure as the
\* term given to encode.
DecodedTheInput ==
  /\ pc = "decoded"
  /\ result.some
  /\ Strip[TreeOf[allocator, result.expr]] = Strip[TreeOf[arena, input]]

\* C1: for every closed term, the encoder writes the term's BLC bits (00 and
\* the body for a Lambda, 01 and both parts for an Application, k ones and a
\* zero for Variable k), as the characters 0 and 1 or as bytes filled high
\* bit first and padded with zero bits, and decoding that output succeeds
\* and gives a term of the same de Bruijn structure.
C1_RoundTrip ==
  (/\ pc \in {"decode", "decoded", "failed"}
   /\ args.binary \/ (args.zero = <<"0">> /\ args.one = <<"1">>))
  => /\ IF args.binary
        THEN PacksTo[stdout, BLC[TreeOf[arena, input]]]
        ELSE stdout = Spelled[BLC[TreeOf[arena, input]]]
                        \o (IF args.zero_width THEN <<>> ELSE Newline)
     /\ pc # "decode" => DecodedTheInput

\* C1 witness: (\x. x x) (\x. x x) went through the byte stream: 18 bits in
\* three bytes, six of them padding.
C1_Witness ==
  /\ args.binary /\ pc = "decoded" /\ Len(stdout) = 3
  /\ TreeOf[arena, input] = Omega
  /\ Strip[TreeOf[allocator, result.expr]] = Strip[Omega]

\* Every item the Extractor yields, in order, as bits 0 and 1.
Extracted[iter \in Any] ==
  LET n == Extractor_next[iter]
  IN  IF ~n.item.some THEN <<>>
      ELSE <<IF n.item.bit THEN 1 ELSE 0>> \o Extracted[n.iter]

\* C2: for every pair of non-empty markers zero # one, of one or of several
\* characters, and every closed term, the Extractor applied to the text that
\* encode wrote yields exactly the term's BLC bits, and decode gives a term
\* of the same de Bruijn structure.
C2_AlphabetIndependence ==
  (pc \in {"decoded", "failed"} /\ ~args.binary /\ args.zero # args.one)
  => /\ Extracted[Extractor_new(args.zero, args.one, stdout)] = BLC[TreeOf[arena, input]]
     /\ DecodedTheInput

\* ------------------------------------------------------- run.rs: the REPL

\* How many results of editor.readline are kept in readlines.
HistoryLen == 3

\* Result<String, ReadlineError>.
Ok(line) == [tag |-> "Ok", line |-> line]
Eof == [tag |-> "Eof", line |-> ""]
Interrupted == [tag |-> "Interrupted", line |-> ""]
OtherError == [tag |-> "Io", line |-> ""]

\* Lines of code the user enters, and the term load_statement returns for each.
CodeLines == {"(\\x. x x) (\\x. x x)", "(\\x.\\y.y) ((\\x. x x) (\\x. x x))", "\\x.\\y.x"}

load_statement(line) ==
  CASE line = "(\\x. x x) (\\x. x x)" -> Omega
    [] line = "(\\x.\\y.y) ((\\x. x x) (\\x. x x))" -> DiscardOmega
    [] line = "\\x.\\y.x" -> CombK

\* line.trim().is_empty()
BlankLines == {"", " "}

\* Lines that begin with :load, and the file each names.
LoadLines == {":load two.txt", ":load k.txt", ":load defs.txt", ":load none.txt"}

strip_prefix(line) ==
  CASE line = ":load two.txt" -> "two.txt"
    [] line = ":load k.txt" -> "k.txt"
    [] line = ":load defs.txt" -> "defs.txt"
    [] line = ":load none.txt" -> "none.txt"

\* fs::read_to_string and Executor::load_code of a file: the top-level
\* expressions of the file in order, or an error (none.txt does not exist).
\* two.txt holds (\x. x x) (\x. x x) and \x.\y.x; k.txt holds \x.\y.x and
\* (\x.\y.y) ((\x. x x) (\x. x x)); defs.txt holds assignments only.
load_code(filename) ==
  CASE filename = "two.txt"  -> [ok |-> TRUE, exprs |-> <<Omega, CombK>>]
    [] filename = "k.txt"    -> [ok |-> TRUE, exprs |-> <<CombK, DiscardOmega>>]
    [] filename = "defs.txt" -> [ok |-> TRUE, exprs |-> <<>>]
    [] filename = "none.txt" -> [ok |-> FALSE, exprs |-> <<>>]

Lines == BlankLines \cup {":exit", ":help"} \cup CodeLines \cup LoadLines

\* Repl::run_line: what the line makes the loop do (the lines entered here
\* are a single word or code, so the first word is the line).
run_line(line) ==
  CASE line \in {":e", ":ex", ":exi", ":exit", ":q", ":qu", ":qui", ":quit"} -> "Exit"
    [] line \in {":h", ":he", ":hel", ":help"} -> "Help"
    [] line \in LoadLines -> "Load"
    [] OTHER -> "Code"

\* readlines after one more result.
Logged(r) ==
  IF Len(readlines) < HistoryLen THEN Append(readlines, r) ELSE Append(Tail(readlines), r)

\* The loop goes on to the next readline, or Repl::run returns, without an
\* evaluation.
Goes(to, flag, printed) ==
  /\ repl' = to
  /\ ctrl_c_should_exit' = flag
  /\ console' = printed
  /\ UNCHANGED <<evalVars, codecVars, visitVars, symbolVars, byteVars>>

\* run_line_as_code and load_file without the store: the flag is left as it is.
RunCode_flag_kept(e) ==
  /\ abort' = abort
  /\ input' = e
  /\ expr' = e
  /\ with_abort' = TRUE
  /\ evaluator' = Evaluator_new
  /\ step' = 0
  /\ result' = None
  /\ calls' = 1
  /\ pc' = "check"

\* run_line_as_code and load_file: self.abort.store(false) and then the
\* entry of evaluate_with_abort with a fresh Evaluator.
RunCode(e) ==
  /\ abort' = FALSE
  /\ input' = e
  /\ expr' = e
  /\ with_abort' = TRUE
  /\ evaluator' = Evaluator_new
  /\ step' = 0
  /\ result' = None
  /\ calls' = 1
  /\ pc' = "check"

\* Ok(line): the flag is reset, a blank line is skipped, run_line runs a
\* command, load_file begins to evaluate the expressions of a file, or
\* run_line_as_code begins evaluate_with_abort of an expression.
ReadOk ==
  /\ repl = "readline"
  /\ \E line \in Lines :
       /\ readlines' = Logged(Ok(line))
       /\ IF line \in BlankLines THEN Goes("readline", FALSE, console)
          ELSE IF run_line(line) = "Exit" THEN Goes("exited", FALSE, console)
          ELSE IF run_line(line) = "Help" THEN Goes("readline", FALSE, "help")
          ELSE IF run_line(line) = "Load"
          THEN IF ~load_code(strip_prefix(line)).ok THEN Goes("readline", FALSE, "Error")
               ELSE \E b \in {BuildAll[<<>>, load_code(strip_prefix(line)).exprs]} :
                      IF b.out = <<>> THEN Goes("readline", FALSE, "Running code...")
                      ELSE /\ repl' = "eval"
                           /\ ctrl_c_should_exit' = FALSE
                           /\ console' = "Running code..."
                           /\ arena' = b.arena
                           /\ to_evaluate' = Tail(b.out)
                           /\ RunCode(Head(b.out))
                           /\ UNCHANGED <<codecVars, visitVars, byteVars, symbol_table, code, parsed, values>>
          ELSE \E b \in {Build[<<>>, load_statement(line)]} :
                 /\ repl' = "eval"
                 /\ ctrl_c_should_exit' = FALSE
                 /\ console' = console
                 /\ arena' = b.arena
                 /\ RunCode(b.out)
                 /\ UNCHANGED <<codecVars, visitVars, symbolVars, byteVars>>

\* Err(ReadlineError::Eof).
ReadEof ==
  /\ repl = "readline"
  /\ readlines' = Logged(Eof)
  /\ Goes("exited", ctrl_c_should_exit, console)

\* Err(ReadlineError::Interrupted) that returns at the first Ctrl+C.
ReadInterrupted_exits_at_once ==
  /\ repl = "readline"
  /\ readlines' = Logged(Interrupted)
  /\ Goes("exited", ctrl_c_should_exit, console)

\* Err(ReadlineError::Interrupted).
ReadInterrupted ==
  /\ repl = "readline"
  /\ readlines' = Logged(Interrupted)
  /\ IF ctrl_c_should_exit
     THEN Goes("exited", ctrl_c_should_exit, console)
     ELSE Goes("readline", TRUE, "hint")

\* Err(e): Repl::run returns the error.
ReadError ==
  /\ repl = "readline"
  /\ readlines' = Logged(OtherError)
  /\ Goes("failed", ctrl_c_should_exit, console)

\* run_line_as_code and load_file after evaluate_with_abort returned: the
\* result or "Interrupted" is printed; load_file goes on with the next
\* expression of the file, and after the last one the loop continues.
PrintResult ==
  /\ repl = "eval"
  /\ pc = "done"
  /\ console' = IF result.some THEN "result" ELSE "Interrupted"
  /\ IF to_evaluate = <<>>
     THEN /\ repl' = "readline"
          /\ pc' = "idle"
          /\ UNCHANGED <<input, with_abort, expr, evaluator, step, result, calls, abort,
                         to_evaluate>>
     ELSE /\ repl' = "eval"
          /\ RunCode(Head(to_evaluate))
          /\ to_evaluate' = Tail(to_evaluate)
  /\ UNCHANGED <<arena, codecVars, ctrl_c_should_exit, readlines, visitVars, byteVars,
                 symbol_table, code, parsed, values>>

InitRepl ==
  /\ repl = "readline"
  /\ ctrl_c_should_exit = FALSE
  /\ readlines = <<>>
  /\ console = "welcome"
  /\ abort = FALSE
  /\ arena = <<>>
  /\ input = Unwind
  /\ expr = Unwind
  /\ with_abort = TRUE
  /\ evaluator = Evaluator_new
  /\ step = 0
  /\ result = None
  /\ calls = 0
  /\ pc = "idle"
  /\ NoCodec
  /\ NoVisit
  /\ NoSymbols
  /\ NoBytes

NextRepl ==
  \/ ReadOk \/ ReadEof \/ ReadInterrupted \/ ReadError
  \/ LoadAbort \/ Pass \/ SetAbort \/ PrintResult

SpecRepl == InitRepl /\ [][NextRepl]_vars

\* The n-th latest result of editor.readline (1: the latest); Eof for none.
Latest(n) == IF Len(readlines) >= n THEN readlines[Len(readlines) + 1 - n] ELSE Eof

\* C10: the REPL exits on Ctrl+C only when the readline before the
\* interrupted one was interrupted too.  A single interrupt prints the hint
\* and the loop goes on; after any line that was read, a blank one included,
\* the flag is reset, so that the next interrupt is a single one again.
C10_ExitOnSecondCtrlC ==
  /\ (repl = "exited" /\ Len(readlines) >= 1 /\ Latest(1) = Interrupted)
       => (Len(readlines) >= 2 /\ Latest(2) = Interrupted)
  /\ (/\ repl # "off" /\ Len(readlines) >= 1 /\ Latest(1) = Interrupted
      /\ Len(readlines) >= 2 => Latest(2) # Interrupted)
       => (repl = "readline" /\ console = "hint" /\ ctrl_c_should_exit)
  /\ (Len(readlines) >= 1 /\ Latest(1).tag = "Ok") => ~ctrl_c_should_exit

\* C10 witness: Ctrl+C, a blank line, Ctrl+C: the REPL prints the hint
\* again and waits for the next line.
C10_Witness ==
  /\ readlines = <<Interrupted, Ok(""), Interrupted>>
  /\ repl = "readline" /\ console = "hint" /\ ctrl_c_should_exit

\* The step that prints the outcome of an evaluation that has returned.
PrintStep == repl = "eval" /\ pc = "done" /\ pc' # "done"

\* C11: in the REPL an interruption is local to one evaluation.  Every
\* evaluate_with_abort call, of a statement and of each expression of a
\* :load, begins with the abort flag false, whatever the flag was before;
\* the flag becomes true by the Ctrl+C handler alone; an evaluation returns
\* the sentinel only at a load that finds the flag true, so only after a
\* store made since that evaluation began.  The outcome None is printed as
\* Interrupted, and then the next expression of the :load is evaluated, or
\* the loop reads the next line.
C11_InterruptIsLocal ==
  /\ [][(pc \in {"idle", "done"} /\ pc' = "check") => ~abort']_vars
  /\ [][(~abort /\ abort') => UNCHANGED <<pc, result, repl, console, to_evaluate, input>>]_vars
  /\ [][(repl = "eval" /\ pc # "done" /\ pc' = "done" /\ result' = None) => abort]_vars
  /\ [][(PrintStep /\ result = None) =>
          /\ console' = "Interrupted"
          /\ IF to_evaluate = <<>> THEN repl' = "readline"
             ELSE /\ repl' = "eval" /\ pc' = "check" /\ ~abort'
                  /\ input' = Head(to_evaluate)
                  /\ to_evaluate' = Tail(to_evaluate)]_vars

\* C11 witness: :load two.txt, whose first expression (\x. x x) (\x. x x)
\* was interrupted and printed as Interrupted, has evaluated its second
\* expression to a term.
C11_Witness ==
  /\ Latest(1) = Ok(":load two.txt")
  /\ console = "Interrupted"
  /\ repl = "eval" /\ pc = "done" /\ result.some
  /\ Shape(arena, result.expr) = Strip[CombK]

\* ------------------------------- executor.rs: Shift and Replace on their own

\* Largest number of nodes and largest index of a term given to a visitor.
MaxVisitNodes == 4
MaxVisitIndex == 3
\* Largest cutoff and largest offset, upwards and downwards, of a Shift.
MaxCutoff == 3
MaxOffset == 2

VisitTerms == TreesUpTo(MaxVisitNodes, MaxVisitIndex, {"x"})

Cutoffs == 0..MaxCutoff

Offsets == (0 - MaxOffset)..MaxOffset

\* The values a Replace is made with.
Replacements == {Var(1), Var(2), Lam("y", Var(1)), Lam("y", App(Var(1), Var(2)))}

\* expr.visit(&mut Shift::new(allocator, cutoff, offset)), on the term or on
\* the result of an earlier Shift with the same cutoff.
ShiftVisit ==
  /\ pc = "visit"
  /\ Len(trail) < 2
  /\ \E cutoff \in Cutoffs, offset \in Offsets :
       /\ trail # <<>> => (trail[1].visit = "Shift" /\ trail[1].cutoff = cutoff)
       /\ \E r \in {Shift_visit[arena, Shift_new(cutoff, offset), expr]} :
            /\ arena' = r.arena
            /\ expr' = r.out
            /\ visitor' = r.self
            /\ pc' = IF r.out = Unwind THEN "panic" ELSE "visit"
            /\ trail' = Append(trail, [visit |-> "Shift", cutoff |-> cutoff, offset |-> offset,
                                       cells |-> Len(arena)])
  /\ UNCHANGED <<input, with_abort, evaluator, step, result, calls, abort,
                 codecVars, replVars, symbolVars, byteVars>>

\* expr.visit(&mut Replace::new(allocator, new_value)) with a value built
\* beforehand.
ReplaceVisit ==
  /\ pc = "visit"
  /\ trail = <<>>
  /\ \E x \in Replacements :
       \E b \in {Build[arena, x]} :
         \E r \in {Replace_visit[b.arena, Replace_new(b.out), expr]} :
            /\ arena' = r.arena
            /\ expr' = r.out
            /\ visitor' = r.self
            /\ pc' = IF r.out = Unwind THEN "panic" ELSE "visit"
            /\ trail' = <<[visit |-> "Replace", new_value |-> b.out, cells |-> Len(b.arena)]>>
  /\ UNCHANGED <<input, with_abort, evaluator, step, result, calls, abort,
                 codecVars, replVars, symbolVars, byteVars>>

InitVisit ==
  \E t \in VisitTerms, shared \in BOOLEAN :
    \E b \in {IF shared THEN BuildShared[<<>>, t] ELSE Build[<<>>, t]} :
        /\ arena = b.arena
        /\ input = b.out
        /\ expr = b.out
        /\ pc = "visit"
        /\ visitor = <<>>
        /\ trail = <<>>
        /\ with_abort = FALSE
        /\ evaluator = Evaluator_new
        /\ step = 0
        /\ result = None
        /\ calls = 0
        /\ abort = FALSE
        /\ NoCodec
        /\ NoRepl
        /\ NoSymbols
        /\ NoBytes

NextVisit == ShiftVisit \/ ReplaceVisit

SpecVisit == InitVisit /\ [][NextVisit]_vars

\* The tree with every Variable i under k of its Lambdas turned into
\* i + offset when i >= cutoff + k, and everything else kept.
Shifted[tree \in Any, cutoff \in Any, offset \in Any] ==
  CASE tree.kind = "Term"   -> IF tree.i >= cutoff THEN Var(tree.i + offset) ELSE tree
    [] tree.kind = "Lambda" -> Lam(tree.name, Shifted[tree.body, cutoff + 1, offset])
    [] tree.kind = "Eval"   -> App(Shifted[tree.left, cutoff, offset],
                                   Shifted[tree.right, cutoff, offset])

\* Every Variable i under k Lambdas with i >= cutoff + k has i + offset >= least + k.
LandsAtLeast[tree \in Any, cutoff \in Any, offset \in Any, least \in Any] ==
  CASE tree.kind = "Term"   -> tree.i >= cutoff => tree.i + offset >= least
    [] tree.kind = "Lambda" -> LandsAtLeast[tree.body, cutoff + 1, offset, least + 1]
    [] tree.kind = "Eval"   -> /\ LandsAtLeast[tree.left, cutoff, offset, least]
                               /\ LandsAtLeast[tree.right, cutoff, offset, least]

\* No Variable that the shift moves ends below 1.
StaysPositive[tree \in Any, cutoff \in Any, offset \in Any] ==
  CASE tree.kind = "Term"   -> tree.i >= cutoff => tree.i + offset >= 1
    [] tree.kind = "Lambda" -> StaysPositive[tree.body, cutoff + 1, offset]
    [] tree.kind = "Eval"   -> /\ StaysPositive[tree.left, cutoff, offset]
                               /\ StaysPositive[tree.right, cutoff, offset]

\* C12: shift(cutoff, offset, t) returns a term of the same shape and names
\* as t in which a Variable i under k Lambdas of t is i + offset when
\* i >= cutoff + k and i otherwise (where no Variable is moved below 1), and
\* the visitor's cutoff field has its initial value again after the visit.
C12_ShiftContract ==
  (Len(trail) = 1 /\ trail[1].visit = "Shift"
     /\ StaysPositive[TreeOf[arena, input], trail[1].cutoff, trail[1].offset])
  => /\ pc = "visit"
     /\ TreeOf[arena, expr] = Shifted[TreeOf[arena, input], trail[1].cutoff, trail[1].offset]
     /\ visitor = Shift_new(trail[1].cutoff, trail[1].offset)

\* C12 witness: shift(1, 1, \x. x 2) has returned \x. x 3: under the Lambda
\* the cutoff was 2, and it is 1 again.
C12_Witness ==
  /\ Len(trail) = 1 /\ trail[1].visit = "Shift" /\ trail[1].cutoff = 1 /\ trail[1].offset = 1
  /\ TreeOf[arena, input] = Lam("x", App(Var(1), Var(2)))
  /\ TreeOf[arena, expr] = Lam("x", App(Var(1), Var(3)))
  /\ visitor.cutoff = 1

\* The two shifts of the trail and the single shift by the sum of their
\* offsets leave every moved Variable at 1 or above.
NothingBelowOne ==
  /\ StaysPositive[TreeOf[arena, input], trail[1].cutoff, trail[1].offset]
  /\ StaysPositive[Shifted[TreeOf[arena, input], trail[1].cutoff, trail[1].offset],
                   trail[2].cutoff, trail[2].offset]
  /\ StaysPositive[TreeOf[arena, input], trail[1].cutoff, trail[1].offset + trail[2].offset]

\* The term after the two shifts of the trail is, up to names, the term
\* that one shift by the sum of the offsets makes of the input.
ComposedIsSum ==
  /\ pc = "visit"
  /\ [r \in Any |-> r.out # Unwind /\ Shape(arena, expr) = Strip[TreeOf[r.arena, r.out]]
     ][Shift_visit[arena, Shift_new(trail[1].cutoff, trail[1].offset + trail[2].offset), input]]

\* C13 as stated: for every term t, cutoff c and signed offsets m, n such
\* that no free variable drops below 1 at any stage,
\* shift(c, m, shift(c, n, t)) is structurally equal to shift(c, m + n, t).
C13_ShiftComposition ==
  (Len(trail) = 2 /\ NothingBelowOne) => ComposedIsSum

\* C13 amended: the same, for the offsets n of the first shift that leave
\* every Variable the shift moves at or above its cutoff (c + k under k
\* Lambdas), as every n >= 0 does, and for m = 0.
C13_ShiftCompositionAboveCutoff ==
  (/\ Len(trail) = 2
   /\ NothingBelowOne
   /\ \/ LandsAtLeast[TreeOf[arena, input], trail[1].cutoff, trail[1].offset, trail[1].cutoff]
      \/ trail[2].offset = 0)
  => ComposedIsSum

\* C13 witness: shift(2, -1, shift(2, 2, 1 2)) has returned 1 3.
C13_Witness ==
  /\ Len(trail) = 2 /\ trail[1].cutoff = 2 /\ trail[1].offset = 2 /\ trail[2].offset = 0 - 1
  /\ TreeOf[arena, input] = App(Var(1), Var(2))
  /\ TreeOf[arena, expr] = App(Var(1), Var(3))

\* Some Variable i under k Lambdas of the tree has i = target + k.
OccursFree[tree \in Any, target \in Any] ==
  CASE tree.kind = "Term"   -> tree.i = target
    [] tree.kind = "Lambda" -> OccursFree[tree.body, target + 1]
    [] tree.kind = "Eval"   -> OccursFree[tree.left, target] \/ OccursFree[tree.right, target]

\* Every Variable i under k Lambdas of the tree has i < cutoff + k.
AllBelow[tree \in Any, cutoff \in Any] ==
  CASE tree.kind = "Term"   -> tree.i < cutoff
    [] tree.kind = "Lambda" -> AllBelow[tree.body, cutoff + 1]
    [] tree.kind = "Eval"   -> AllBelow[tree.left, cutoff] /\ AllBelow[tree.right, cutoff]

\* C14: a transform that changes no variable returns the input handle
\* itself and allocates no cell: Replace on a term in which the target
\* variable does not occur free, and Shift with a cutoff above every free
\* variable of the term or with offset 0.
C14_IdentityOptimization ==
  (Len(trail) = 1 /\
     IF trail[1].visit = "Replace" THEN ~OccursFree[TreeOf[arena, input], 1]
     ELSE trail[1].offset = 0 \/ AllBelow[TreeOf[arena, input], trail[1].cutoff])
  => (expr = input /\ Len(arena) = trail[1].cells)

\* C14 witness: Replace on \x. x 3, where the target is Variable 2 under
\* the Lambda, has returned the handle it was given.
C14_Witness ==
  /\ Len(trail) = 1 /\ trail[1].visit = "Replace"
  /\ TreeOf[arena, input] = Lam("x", App(Var(1), Var(3)))
  /\ expr = input

\* ------------------------------------- run.rs: the files of RunArgs::execute

\* The grammar lambda.lalrpop is not part of the sources at hand: the
\* statements a file holds and the calls the parser makes for them follow
\* the description of the source syntax and of the data flow ("the parser
\* emits AST-shaped calls into the symbol table").

MaxAst == 3

MaxNumber == 2

AstNames == {"x", "f"}

\* The source syntax: an identifier, an integer literal, \names. body, and
\* juxtaposition; NAME = EXPR; and an expression on its own.
Name(name) == [kind |-> "Name", name |-> name]
Number(number) == [kind |-> "Number", number |-> number]
Lambda(names, body) == [kind |-> "Lambda", names |-> names, body |-> body]
Apply(left, params) == [kind |-> "Apply", left |-> left, params |-> params]
Assign(name, e) == [kind |-> "Assign", name |-> name, expr |-> e]
Expression(e) == [kind |-> "Expression", expr |-> e]

\* A call of the parser into the symbol table, with the offset of its token.
Call(call, arg) == [call |-> call, arg |-> arg, offset |-> 0]

\* The calls made for an expression of side "assign" or "eval": the
\* parameters are started before the body is read, the operands are built
\* from left to right, and each node is built once its parts are.
RECURSIVE CallsOfAll
Calls[ast \in Any, side \in Any] ==
  CASE ast.kind = "Name" ->
         <<Call(IF side = "assign" THEN "build_assign_term" ELSE "build_eval_term", ast.name)>>
    [] ast.kind = "Number" -> <<Call("build_number", ast.number)>>
    [] ast.kind = "Lambda" ->
         [k \in 1..Len(ast.names) |->
            Call(IF side = "assign" THEN "start_assign_lambda" ELSE "start_eval_lambda",
                 ast.names[k])]
         \o Calls[ast.body, side]
         \o <<Call(IF side = "assign" THEN "build_assign_lambda" ELSE "build_eval_lambda",
                   ast.names)>>
    [] ast.kind = "Apply" ->
         Calls[ast.left, side] \o CallsOfAll[ast.params, side]
         \o <<Call(IF side = "assign" THEN "build_assign_eval" ELSE "build_eval_eval",
                   Len(ast.params))>>

CallsOfAll[asts \in Any, side \in Any] ==
  IF asts = <<>> THEN <<>> ELSE Calls[Head(asts), side] \o CallsOfAll[Tail(asts), side]

\* The calls made for the statements of a file, in the order of the text.
StatementCalls[statements \in Any] ==
  IF statements = <<>> THEN <<>>
  ELSE (IF Head(statements).kind = "Assign"
        THEN Calls[Head(statements).expr, "assign"]
             \o <<Call("declare_global", Head(statements).name)>>
        ELSE Calls[Head(statements).expr, "eval"] \o <<Call("results.push", 0)>>)
       \o StatementCalls[Tail(statements)]

ProgramCalls[statements \in Any] ==
  [k \in 1..Len(StatementCalls[statements]) |->
     [StatementCalls[statements][k] EXCEPT !.offset = k]]

\* The expressions of exactly n nodes.
RECURSIVE AstsOfSize(_)
AstsOfSize(n) ==
  IF n <= 0 THEN {}
  ELSE IF n = 1 THEN {Name(nm) : nm \in AstNames} \cup {Number(k) : k \in 0..MaxNumber}
  ELSE {Lambda(<<nm>>, b) : nm \in AstNames, b \in AstsOfSize(n - 1)}
       \cup UNION {{Apply(l, <<r>>) : l \in AstsOfSize(k), r \in AstsOfSize(n - 1 - k)}
                   : k \in 1..(n - 2)}

Statements ==
  UNION {{Assign(nm, e) : nm \in AstNames} \cup {Expression(e)}
         : e \in UNION {AstsOfSize(n) : n \in 1..MaxAst}}

\* What a file holds before its last statement.
Earlier ==
  { <<>>,
    <<Assign("x", Lambda(<<"f">>, Name("f")))>>,
    <<Expression(Number(1)), Assign("f", Number(2))>> }

\* a = \x. x;  b = \y z. y;  f = \x. \x. x;  f a b
ShadowProgram ==
  << Assign("a", Lambda(<<"x">>, Name("x"))),
     Assign("b", Lambda(<<"y", "z">>, Name("y"))),
     Assign("f", Lambda(<<"x">>, Lambda(<<"x">>, Name("x")))),
     Expression(Apply(Name("f"), <<Name("a"), Name("b")>>)) >>

\* x = \f x y. y (f x);  x = 1;  3 0 2 1;  \x y. f y x
LongProgram ==
  << Assign("x", Lambda(<<"f", "x", "y">>, Apply(Name("y"), <<Apply(Name("f"), <<Name("x")>>)>>))),
     Assign("x", Number(1)),
     Expression(Apply(Number(3), <<Number(0), Number(2), Number(1)>>)),
     Expression(Lambda(<<"x", "y">>, Apply(Name("f"), <<Name("y"), Name("x")>>))) >>

Programs ==
  {e \o <<s>> : e \in Earlier, s \in Statements} \cup {ShadowProgram, LongProgram}

\* The call the parser makes next.
NextCall == ProgramCalls[code][parsed + 1]

Parsing(call) ==
  /\ pc = "parse"
  /\ parsed < Len(ProgramCalls[code])
  /\ NextCall.call = call

\* The call returns to the parser, which keeps the handle it got.
Returns(a, self, stack) ==
  /\ arena' = a
  /\ symbol_table' = self
  /\ values' = stack
  /\ parsed' = parsed + 1
  /\ UNCHANGED <<input, with_abort, pc, expr, evaluator, step, result, calls, abort, code,
                 to_evaluate, codecVars, replVars, visitVars, byteVars>>

Top(stack) == stack[Len(stack)]

DeclareGlobal ==
  /\ Parsing("declare_global")
  /\ Returns(arena, declare_global(symbol_table, NextCall.arg, Top(values), NextCall.offset),
             pop(values))

BuildAssignTerm ==
  /\ Parsing("build_assign_term")
  /\ \E r \in {build_assign_term(symbol_table, NextCall.arg, NextCall.offset)} :
        Returns(arena, r.self, Append(values, r.out))

BuildEvalTerm ==
  /\ Parsing("build_eval_term")
  /\ \E r \in {build_eval_term(symbol_table, NextCall.arg, NextCall.offset)} :
        Returns(arena, r.self, Append(values, r.out))

StartAssignLambda ==
  /\ Parsing("start_assign_lambda")
  /\ Returns(arena, start_assign_lambda(symbol_table, NextCall.arg, NextCall.offset), values)

StartEvalLambda ==
  /\ Parsing("start_eval_lambda")
  /\ Returns(arena, start_eval_lambda(symbol_table, NextCall.arg, NextCall.offset), values)

BuildAssignLambda ==
  /\ Parsing("build_assign_lambda")
  /\ \E r \in {build_assign_lambda[arena, symbol_table, NextCall.arg, Top(values)]} :
        Returns(r.arena, r.self, Append(pop(values), r.out))

BuildEvalLambda ==
  /\ Parsing("build_eval_lambda")
  /\ \E r \in {build_eval_lambda[arena, symbol_table, NextCall.arg, Top(values)]} :
        Returns(r.arena, r.self, Append(pop(values), r.out))

BuildAssignEval ==
  /\ Parsing("build_assign_eval")
  /\ \E n \in {Len(values) - NextCall.arg} :
     \E r \in {build_assign_eval[arena, values[n], SubSeq(values, n + 1, Len(values))]} :
        Returns(r.arena, symbol_table, Append(SubSeq(values, 1, n - 1), r.out))

BuildEvalEval ==
  /\ Parsing("build_eval_eval")
  /\ \E n \in {Len(values) - NextCall.arg} :
     \E r \in {build_eval_eval[arena, values[n], SubSeq(values, n + 1, Len(values))]} :
        Returns(r.arena, symbol_table, Append(SubSeq(values, 1, n - 1), r.out))

BuildNumber ==
  /\ Parsing("build_number")
  /\ \E r \in {build_number(arena, symbol_table, NextCall.arg)} :
        Returns(r.arena, r.self, Append(values, r.out))

\* An expression on its own is kept among the results of the parse.
PushResult ==
  /\ Parsing("results.push")
  /\ to_evaluate' = Append(to_evaluate, Top(values))
  /\ values' = pop(values)
  /\ parsed' = parsed + 1
  /\ UNCHANGED <<evalVars, symbol_table, code, codecVars, replVars, visitVars, byteVars>>

\* load_code after the parse: has_errors makes it fail, and execute with
\* it; otherwise execute evaluates the first of the expressions returned.
FinishLoad ==
  /\ pc = "parse"
  /\ parsed = Len(ProgramCalls[code])
  /\ IF has_errors(symbol_table)
     THEN /\ pc' = "failed"
          /\ UNCHANGED <<input, with_abort, expr, evaluator, step, result, calls, to_evaluate>>
     ELSE IF to_evaluate = <<>>
     THEN /\ pc' = "loaded"
          /\ UNCHANGED <<input, with_abort, expr, evaluator, step, result, calls, to_evaluate>>
     ELSE /\ StartCall(Head(to_evaluate), FALSE)
          /\ to_evaluate' = Tail(to_evaluate)
  /\ UNCHANGED <<arena, abort, symbol_table, code, parsed, values, codecVars, replVars,
                 visitVars, byteVars>>

\* println!("{result:#}") and the next expression of the file.
PrintLn ==
  /\ pc = "done"
  /\ IF to_evaluate = <<>>
     THEN /\ pc' = "loaded"
          /\ UNCHANGED <<input, with_abort, expr, evaluator, step, result, calls, to_evaluate>>
     ELSE /\ StartCall(Head(to_evaluate), FALSE)
          /\ to_evaluate' = Tail(to_evaluate)
  /\ UNCHANGED <<arena, abort, symbol_table, code, parsed, values, codecVars, replVars,
                 visitVars, byteVars>>

InitSymbols ==
  \E program \in Programs :
    /\ code = program
    /\ parsed = 0
    /\ symbol_table = SymbolTable_new(<<>>, <<>>)
    /\ values = <<>>
    /\ to_evaluate = <<>>
    /\ arena = <<>>
    /\ input = Unwind
    /\ expr = Unwind
    /\ with_abort = FALSE
    /\ evaluator = Evaluator_new
    /\ step = 0
    /\ result = None
    /\ calls = 0
    /\ abort = FALSE
    /\ pc = "parse"
    /\ NoCodec
    /\ NoRepl
    /\ NoVisit
    /\ NoBytes

NextSymbols ==
  \/ DeclareGlobal \/ BuildAssignTerm \/ BuildEvalTerm \/ StartAssignLambda \/ StartEvalLambda
  \/ BuildAssignLambda \/ BuildEvalLambda \/ BuildAssignEval \/ BuildEvalEval \/ BuildNumber
  \/ PushResult \/ FinishLoad \/ Pass \/ PrintLn

SpecSymbols == InitSymbols /\ [][NextSymbols]_vars

\* --------------------------------------------- the symbol table's contracts

\* The parser is in the call named and the step is that call.
CallStep(call) == Parsing(call) /\ parsed' = parsed + 1

\* Exactly one message of the level is recorded by the step.
Records(level) ==
  /\ Len(symbol_table'.messages) = Len(symbol_table.messages) + 1
  /\ SubSeq(symbol_table'.messages, 1, Len(symbol_table.messages)) = symbol_table.messages
  /\ symbol_table'.messages[Len(symbol_table'.messages)].level = level
  /\ symbol_table'.messages[Len(symbol_table'.messages)].offset = NextCall.offset

\* The number of binders pushed after the most recent binder of the name.
PushedAfter(scopes, name) ==
  Cardinality({k \in 1..Len(scopes) : \A j \in k..Len(scopes) : scopes[j] # name})

\* The handle returned for a name, given the scope stack it is looked up in.
Resolves(scopes) ==
  IF \E k \in 1..Len(scopes) : scopes[k] = NextCall.arg
  THEN /\ TreeOf[arena', Top(values')] = Var(1 + PushedAfter(scopes, NextCall.arg))
       /\ symbol_table' = symbol_table
  ELSE IF NextCall.arg \in DOMAIN symbol_table.globals
  THEN /\ Top(values') = symbol_table.globals[NextCall.arg]
       /\ symbol_table' = symbol_table
  ELSE /\ TreeOf[arena', Top(values')] = Var(1)
       /\ Records("Error")
       /\ [symbol_table' EXCEPT !.messages = <<>>] = [symbol_table EXCEPT !.messages = <<>>]

\* C15: build_assign_term and build_eval_term return Variable(i) for a name
\* on the active scope stack, i being 1 + the number of binders pushed after
\* the most recent binder of that name, whatever the globals hold; otherwise
\* the very handle stored for a global of that name; otherwise Variable(1)
\* with exactly one error recorded.  The arena and the rest of the parser's
\* stack are left as they were.
C15_NameResolution ==
  /\ [][CallStep("build_assign_term") => Resolves(symbol_table.assign_scopes)]_vars
  /\ [][CallStep("build_eval_term") => Resolves(symbol_table.eval_scopes)]_vars
  /\ [][CallStep("build_assign_term") \/ CallStep("build_eval_term")
          => arena' = arena /\ pop(values') = values]_vars

\* In x = \f x y. y (f x) the name f has just been resolved, two binders
\* after its own, and nothing was reported.
C15_Witness ==
  /\ code = LongProgram
  /\ parsed = 5
  /\ symbol_table.assign_scopes = <<"f", "x", "y">>
  /\ TreeOf[arena, Top(values)] = Var(3)
  /\ symbol_table.messages = <<>>

\* C16: declare_global of a name that is a global already records exactly
\* one error and leaves the globals as they were; of a new name it inserts
\* the binding to the term given and records nothing.
C16_DeclareGlobal ==
  [][CallStep("declare_global") =>
       IF NextCall.arg \in DOMAIN symbol_table.globals
       THEN /\ symbol_table'.globals = symbol_table.globals
            /\ Records("Error")
       ELSE /\ DOMAIN symbol_table'.globals = DOMAIN symbol_table.globals \cup {NextCall.arg}
            /\ symbol_table'.globals[NextCall.arg] = Top(values)
            /\ \A name \in DOMAIN symbol_table.globals :
                  symbol_table'.globals[name] = symbol_table.globals[name]
            /\ symbol_table'.messages = symbol_table.messages]_vars

\* The second x = ... of the file has been refused: x is still the first term.
C16_Witness ==
  /\ code = LongProgram
  /\ parsed = 12
  /\ DOMAIN symbol_table.globals = {"x"}
  /\ TreeOf[arena, symbol_table.globals["x"]]
       = Lam("f", Lam("x", Lam("y", App(Var(1), App(Var(3), Var(2))))))
  /\ Len(symbol_table.messages) = 1
  /\ symbol_table.messages[1].level = "Error"

\* What a start_*_lambda call does to the scope stack it pushes on.
Shadows(scopes, pushed_on) ==
  /\ pushed_on = Append(scopes, NextCall.arg)
  /\ IF \/ \E k \in 1..Len(scopes) : scopes[k] = NextCall.arg
        \/ NextCall.arg \in DOMAIN symbol_table.globals
     THEN Records("Warning")
     ELSE symbol_table'.messages = symbol_table.messages

\* C17: start_assign_lambda and start_eval_lambda record exactly one warning,
\* and no error, when the name is on the active scope stack or is a global
\* (one even when it is both), nothing otherwise, and always push the
\* binder.  Loading a = \x. x; b = \y z. y; f = \x. \x. x; f a b records one
\* warning and no error, binds f to \x. \x. 1, and f a b normalizes to b.
C17_ShadowingWarns ==
  /\ [][CallStep("start_assign_lambda")
          => Shadows(symbol_table.assign_scopes, symbol_table'.assign_scopes)]_vars
  /\ [][CallStep("start_eval_lambda")
          => Shadows(symbol_table.eval_scopes, symbol_table'.eval_scopes)]_vars
  /\ [](code = ShadowProgram /\ pc # "parse" =>
          /\ Len(symbol_table.messages) = 1
          /\ symbol_table.messages[1].level = "Warning"
          /\ TreeOf[arena, symbol_table.globals["f"]] = Lam("x", Lam("x", Var(1)))
          /\ pc \notin {"failed", "panic"}
          /\ pc \in {"done", "loaded"} =>
                /\ result.some
                /\ Shape(arena, result.expr) = Shape(arena, symbol_table.globals["b"]))

\* f a b has been evaluated to b = \y z. y after the one warning.
C17_Witness ==
  /\ code = ShadowProgram
  /\ pc = "loaded"
  /\ result.some
  /\ TreeOf[arena, result.expr] = Lam("y", Lam("z", Var(2)))
  /\ Len(symbol_table.messages) = 1
  /\ symbol_table.messages[1].message = <<"parameter shadows outer parameter", "x">>

\* k applications of Variable 2 to Variable 1.
NumeralBody[k \in Any] == IF k = 0 THEN Var(1) ELSE App(Var(2), NumeralBody[k - 1])

Max(a, b) == IF a >= b THEN a ELSE b

\* C18: whatever build_number calls came before, build_number(n) returns
\* \f. \x. body with body n applications of Variable 2 to Variable 1; entry
\* k of the cache is k applications of Variable 2 to Variable 1, the cache
\* never shrinks and keeps its entries, and the call takes its body from the
\* cache, allocating only the entries that were missing and the two Lambdas.
C18_ChurchNumerals ==
  /\ [](\A k \in 1..Len(symbol_table.numbers) :
           TreeOf[arena, symbol_table.numbers[k]] = NumeralBody[k - 1])
  /\ [][/\ Len(symbol_table'.numbers) >= Len(symbol_table.numbers)
        /\ SubSeq(symbol_table'.numbers, 1, Len(symbol_table.numbers)) = symbol_table.numbers
       ]_vars
  /\ [][CallStep("build_number") =>
          /\ TreeOf[arena', Top(values')] = Lam("f", Lam("x", NumeralBody[NextCall.arg]))
          /\ Len(symbol_table'.numbers) = Max(Len(symbol_table.numbers), NextCall.arg + 1)
          /\ unpack(arena', unpack(arena', Top(values')).body).body
               = symbol_table'.numbers[NextCall.arg + 1]
          /\ SubSeq(arena', 1, Len(arena)) = arena
          /\ Len(arena') = Len(arena) + 2 + Len(symbol_table'.numbers)
                             - Max(Len(symbol_table.numbers), 1)]_vars

\* 3 0 2 1 has been read after x = 1: the cache holds 0..3 and the last
\* three numerals were taken from it.
C18_Witness ==
  /\ code = LongProgram
  /\ parsed < Len(ProgramCalls[code])
  /\ NextCall.call = "build_eval_eval"
  /\ NextCall.arg = 3
  /\ Len(symbol_table.numbers) = 4
  /\ TreeOf[arena, values[Len(values) - 1]] = Lam("f", Lam("x", NumeralBody[2]))
  /\ TreeOf[arena, values[Len(values)]] = Lam("f", Lam("x", NumeralBody[1]))

\* ------------------------------------ decode.rs: decode of any bit string

MaxBits == 10

\* What decode reads from stdin: any text of the characters 0 and 1.
BitTexts == UNION {[1..n -> {"0", "1"}] : n \in 0..MaxBits}

InitDecode ==
  \E text \in BitTexts :
    /\ stdout = text
    /\ args = DefaultArgs
    /\ allocator = <<>>
    /\ pc = "decode"
    /\ arena = <<>>
    /\ input = Unwind
    /\ expr = Unwind
    /\ with_abort = FALSE
    /\ evaluator = Evaluator_new
    /\ step = 0
    /\ result = None
    /\ calls = 0
    /\ abort = FALSE
    /\ NoRepl
    /\ NoVisit
    /\ NoSymbols
    /\ NoBytes

NextDecode == Decode

SpecDecode == InitDecode /\ [][NextDecode]_vars

\* The bits 0 and 1 that a text of the characters 0 and 1 spells.
Unspelled[text \in Any] == [k \in 1..Len(text) |-> IF text[k] = "1" THEN 1 ELSE 0]

IsPrefix(s, t) == Len(s) <= Len(t) /\ SubSeq(t, 1, Len(s)) = s

\* The terms in which every Variable index is at most the number of
\* Lambdas enclosing it, and whose code is no longer than the texts read.
ClosedCodes ==
  {Strip[t] : t \in {u \in TreesUpTo(MaxBits \div 2, MaxBits \div 2, {"x"}) :
                       Closed(u) /\ Len(BLC[u]) <= MaxBits}}

\* C19: decode_expr returns a term exactly when the bits begin with the
\* code of a term in which every Variable index is at most the number of
\* Lambdas enclosing it (the depth is 0 at the start, one more in a Lambda
\* body, and that of the Application again for its argument), and the term
\* returned is that term; an index above the depth, and bits that end
\* before a term is complete, the empty input included, give None.
C19_DecoderDepthCheck ==
  pc \in {"decoded", "failed"} =>
    /\ result.some <=> pc = "decoded"
    /\ result.some <=> \E t \in ClosedCodes : IsPrefix(BLC[t], Unspelled[stdout])
    /\ result.some => IsPrefix(BLC[Strip[TreeOf[allocator, result.expr]]], Unspelled[stdout])

\* (\x. x) 1 was refused: the argument of the Application is read at depth
\* 0 again, where no Variable is allowed.
C19_Witness ==
  /\ pc = "failed"
  /\ stdout = <<"0", "1", "0", "0", "1", "0", "1", "0">>
  /\ ~result.some

\* ------------------------------------ encode.rs: the ByteVisitor on its own

MaxPushed == 9

\* ByteVisitor::push_bit as the visit_* methods call it, one bit at a time.
PushBit ==
  /\ pc = "push"
  /\ Len(pushed) < MaxPushed
  /\ \E bit \in BOOLEAN :
        /\ byte_visitor' = push_bit[byte_visitor, bit]
        /\ pushed' = Append(pushed, IF bit THEN 1 ELSE 0)
  /\ UNCHANGED <<evalVars, codecVars, replVars, visitVars, symbolVars>>

\* term.visit(&mut visitor) of EncodeArgs::execute with a new ByteVisitor.
Visit ==
  /\ pc = "visit"
  /\ byte_visitor' = ByteVisitor_visit[arena, byte_visitor, input]
  /\ pc' = "visited"
  /\ UNCHANGED <<arena, input, with_abort, expr, evaluator, step, result, calls, abort,
                 codecVars, replVars, visitVars, symbolVars, pushed>>

\* visitor.into_bytes(), written to stdout.
IntoBytes ==
  /\ pc \in {"push", "visited"}
  /\ stdout' = into_bytes[byte_visitor]
  /\ pc' = IF pc = "push" THEN "packed" ELSE "encoded"
  /\ UNCHANGED <<arena, input, with_abort, expr, evaluator, step, result, calls, abort,
                 args, allocator, replVars, visitVars, symbolVars, byteVars>>

InitBytes ==
  /\ \/ \E t \in CodecTerms : \E b \in {Build[<<>>, t]} :
           arena = b.arena /\ input = b.out /\ expr = b.out /\ pc = "visit"
     \/ arena = <<>> /\ input = Unwind /\ expr = Unwind /\ pc = "push"
  /\ byte_visitor = ByteVisitor_new
  /\ pushed = <<>>
  /\ args = [DefaultArgs EXCEPT !.binary = TRUE]
  /\ stdout = <<>>
  /\ allocator = <<>>
  /\ with_abort = FALSE
  /\ evaluator = Evaluator_new
  /\ step = 0
  /\ result = None
  /\ calls = 0
  /\ abort = FALSE
  /\ NoRepl
  /\ NoVisit
  /\ NoSymbols

NextBytes == PushBit \/ Visit \/ IntoBytes

SpecBytes == InitBytes /\ [][NextBytes]_vars

\* The bytes flushed and the bits pending are the bits pushed, in order,
\* each byte holding eight of them with the first in its high bit.
HoldsThePushed ==
  /\ Len(byte_visitor.bytes) = Len(pushed) \div 8
  /\ \A k \in 1..(8 * Len(byte_visitor.bytes)) : BitOf(byte_visitor.bytes, k) = pushed[k]
  /\ byte_visitor.bits = SubSeq(pushed, 8 * Len(byte_visitor.bytes) + 1, Len(pushed))

\* C20: after every push_bit fewer than 8 bits are pending and the bytes
\* flushed hold the earlier bits eight per byte, first bit highest, in the
\* order pushed; into_bytes gives ceil(b/8) bytes for b bits, the bits high
\* bit first and only the last byte filled up with 0 bits, and no byte more
\* when b is a multiple of 8; a term gives its BLC bits packed so, and the
\* identity \x. x (bits 0010) gives the one byte 0x20.
C20_BytePacking ==
  /\ pc \in {"push", "visit", "visited"} => Len(byte_visitor.bits) < 8
  /\ pc = "push" => HoldsThePushed
  /\ pc = "packed" =>
        /\ Len(stdout) = (Len(pushed) + 7) \div 8
        /\ PacksTo[stdout, pushed]
  /\ pc = "encoded" =>
        /\ Len(stdout) = (Len(BLC[TreeOf[arena, input]]) + 7) \div 8
        /\ PacksTo[stdout, BLC[TreeOf[arena, input]]]
        /\ Strip[TreeOf[arena, input]] = Strip[Lam("x", Var(1))] => stdout = <<32>>

\* \x. x went through the ByteVisitor and came out as the byte 0x20.
C20_Witness ==
  /\ pc = "encoded"
  /\ TreeOf[arena, input] = Lam("x", Var(1))
  /\ BLC[TreeOf[arena, input]] = <<0, 0, 1, 0>>
  /\ stdout = <<32>>

\* ------------------------------------------- expr.rs: a term is printed

MaxPrintNodes == 4

MaxPrintIndex == 3

\* \x. (\x. 1) (\x. 1), \x. (\x. 2) (\x. 2), \x. \x. (\x. 3 2 1) and
\* \x. (\y. \x. 1) (\x. 4): a name bound again, side by side and in depth.
Siblings == Lam("x", App(Lam("x", Var(1)), Lam("x", Var(1))))

PrintSamples ==
  { Siblings,
    Lam("x", App(Lam("x", Var(2)), Lam("x", Var(2)))),
    Lam("x", Lam("x", Lam("x", App(App(Var(3), Var(2)), Var(1))))),
    Lam("x", App(Lam("y", Lam("x", Var(1))), Lam("x", Var(4)))) }

PrintTerms == TreesUpTo(MaxPrintNodes, MaxPrintIndex, {"x", "y"}) \cup PrintSamples

\* write!/println! with {expr}, {expr:#}, {expr:+} or {expr:-}.
Fmt ==
  /\ pc = "print"
  /\ \E r \in {Display_visit[arena, visitor, input]} :
        /\ visitor' = r
        /\ stdout' = r.f.out
        /\ pc' = IF r.panic THEN "panic" ELSE "printed"
  /\ UNCHANGED <<arena, input, with_abort, expr, evaluator, step, result, calls, abort,
                 args, allocator, replVars, trail, symbolVars, byteVars>>

InitPrint ==
  \E t \in PrintTerms, alternate \in BOOLEAN, sign \in {"", "+", "-"},
     overflow_checks \in BOOLEAN :
    \E b \in {Build[<<>>, t]} :
        /\ arena = b.arena
        /\ input = b.out
        /\ expr = b.out
        /\ visitor = Display_new(Formatter(alternate, sign), overflow_checks)
        /\ trail = <<>>
        /\ pc = "print"
        /\ with_abort = FALSE
        /\ evaluator = Evaluator_new
        /\ step = 0
        /\ result = None
        /\ calls = 0
        /\ abort = FALSE
        /\ NoCodec
        /\ NoRepl
        /\ NoSymbols
        /\ NoBytes

NextPrint == Fmt

SpecPrint == InitPrint /\ [][NextPrint]_vars

\* How many of the names are the name.
Count(names, name) == Cardinality({k \in 1..Len(names) : names[k] = name})

\* A term as it is to be printed under the Lambdas named, innermost last:
\* a name is followed by one prime for every enclosing Lambda of that name,
\* a Variable with no Lambda to refer to is printed as its index.
Pretty[tree \in Any, names \in Any, alternate \in Any] ==
  CASE tree.kind = "Term" ->
         IF tree.i <= Len(names)
         THEN <<names[Len(names) + 1 - tree.i]>>
              \o Primes(Count(SubSeq(names, 1, Len(names) - tree.i),
                              names[Len(names) + 1 - tree.i]))
         ELSE <<ToString(tree.i)>>
    [] tree.kind = "Lambda" ->
         <<IF alternate THEN "λ" ELSE "\\", tree.name>> \o Primes(Count(names, tree.name))
         \o <<".">> \o Pretty[tree.body, Append(names, tree.name), alternate]
    [] tree.kind = "Eval" ->
         <<"(">> \o Pretty[tree.left, names, alternate] \o <<" ">>
         \o Pretty[tree.right, names, alternate] \o <<")">>

Unprimed[printed \in Any] ==
  IF printed = <<>> THEN <<>>
  ELSE (IF Head(printed) = "'" THEN <<>> ELSE <<Head(printed)>>) \o Unprimed[Tail(printed)]

\* C21: in the default mode, a term with a Variable whose index exceeds the
\* number of Lambdas around it is printed without a failure, that Variable
\* as its decimal index and the rest as ever (primes apart).
C21_FreeVariablePrinted ==
  (pc # "print" /\ visitor.f.sign = "" /\ ~Closed(TreeOf[arena, input]))
  => /\ pc = "printed"
     /\ Unprimed[stdout] = Unprimed[Pretty[TreeOf[arena, input], <<>>, visitor.f.alternate]]

\* C22: in the default mode every Lambda's name, and every Variable that
\* refers to it, is printed with as many primes as there are enclosing
\* Lambdas of the same name, sibling Lambdas included.
C22_PrimesCountShadowing ==
  (pc = "printed" /\ visitor.f.sign = "")
  => stdout = Pretty[TreeOf[arena, input], <<>>, visitor.f.alternate]

\* ------------------------------------------ expr.rs: the Allocator's calls

MaxCalls == 2

\* Names at the ends of the ranges: lengths 1 and MAX_STR_LENGTH, pointers
\* 1 and the largest that POINTER_MASK holds.
CellNames == [ptr : {1, LO_SPAN - 1}, len : {1, MAX_STR_LENGTH}]

\* De Bruijn indices at the ends of the fields of a Variable handle.
CellIndices == {1, LO_SPAN - 1, LO_SPAN, TERM_SPAN - 1}

\* Pointers to cells of an arena: the smallest and the largest.
CellPointers == {[t |-> 0, hi |-> 0, lo |-> p] : p \in {1, LO_SPAN - 1}}

\* The handles a cell can be given: inline Variables, pointers, and the
\* handles the earlier calls returned.
Children == {new_term(i) : i \in CellIndices} \cup CellPointers
              \cup {trail[k].out : k \in 1..Len(trail)}

Called(call) ==
  /\ trail' = Append(trail, call)
  /\ input' = call.out
  /\ UNCHANGED <<with_abort, pc, expr, evaluator, step, result, calls, abort, codecVars,
                 replVars, visitor, symbolVars, byteVars>>

NewTerm ==
  /\ pc = "alloc" /\ Len(trail) < MaxCalls
  /\ \E i \in CellIndices :
        /\ arena' = arena
        /\ Called([call |-> "new_term", de_bruijn_index |-> i, out |-> new_term(i)])

NewLambda ==
  /\ pc = "alloc" /\ Len(trail) < MaxCalls
  /\ \E param_name \in CellNames, body \in Children :
     \E r \in {new_lambda(arena, param_name, body)} :
        /\ arena' = r.arena
        /\ Called([call |-> "new_lambda", param_name |-> param_name, body |-> body,
                   out |-> r.out])

NewEval ==
  /\ pc = "alloc" /\ Len(trail) < MaxCalls
  /\ \E l \in Children, r \in Children :
     \E e \in {new_eval(arena, l, r)} :
        /\ arena' = e.arena
        /\ Called([call |-> "new_eval", left |-> l, right |-> r, out |-> e.out])

InitCells ==
  /\ arena = <<>>
  /\ trail = <<>>
  /\ visitor = <<>>
  /\ pc = "alloc"
  /\ input = Unwind
  /\ expr = Unwind
  /\ with_abort = FALSE
  /\ evaluator = Evaluator_new
  /\ step = 0
  /\ result = None
  /\ calls = 0
  /\ abort = FALSE
  /\ NoCodec
  /\ NoRepl
  /\ NoSymbols
  /\ NoBytes

NextCells == NewTerm \/ NewLambda \/ NewEval

SpecCells == InitCells /\ [][NextCells]_vars

\* What unpack makes of the handle a call returned is what the call was given.
ReadsBack(call) ==
  LET u == unpack(arena, call.out)
  IN  CASE call.call = "new_term" ->
             u.kind = "Term" /\ u.de_bruijn_index = call.de_bruijn_index
        [] call.call = "new_lambda" ->
             /\ u.kind = "Lambda"
             /\ u.parameter_name = call.param_name
             /\ u.body = call.body
        [] call.call = "new_eval" ->
             u.kind = "Eval" /\ u.left = call.left /\ u.right = call.right

\* C23: for names of length 1..MAX_STR_LENGTH with a pointer within
\* POINTER_MASK and children that are inline Variables or pointers, unpack
\* reads a cell of new_lambda as a Lambda of that name and body, a cell of
\* new_eval as an Eval of those two handles and new_term(i) as Variable i,
\* whatever was allocated since.
C23_DiscriminatorSound == \A k \in 1..Len(trail) : ReadsBack(trail[k])

\* A Lambda of the longest name over the largest Variable, and then an
\* Eval of that Lambda and the same Variable.
C23_Witness ==
  /\ Len(trail) = 2
  /\ trail[1].call = "new_lambda"
  /\ trail[1].param_name = [ptr |-> LO_SPAN - 1, len |-> MAX_STR_LENGTH]
  /\ trail[1].body = new_term(TERM_SPAN - 1)
  /\ trail[2].call = "new_eval"
  /\ trail[2].left = trail[1].out
  /\ trail[2].right = new_term(TERM_SPAN - 1)
  /\ unpack(arena, trail[2].out).kind = "Eval"

\* -------------------------------------------- the unshift of a beta-step

\* Every subtree of a tree.
Subtrees[tree \in Any] ==
  CASE tree.kind = "Term"   -> {tree}
    [] tree.kind = "Lambda" -> {tree} \cup Subtrees[tree.body]
    [] tree.kind = "Eval"   -> {tree} \cup Subtrees[tree.left] \cup Subtrees[tree.right]

\* What a beta-step on the redex (\x. b) a hands to Shift(1, -1): b after
\* Replace of the argument raised by Shift(1, 1).
BeforeUnshift[redex \in Any] ==
  [built \in Any |->
     [shifted_right \in Any |->
        [replaced \in Any |-> TreeOf[replaced.arena, replaced.out]
        ][Replace_visit[shifted_right.arena, Replace_new(shifted_right.out),
                        unpack(built.arena, unpack(built.arena, built.out).left).body]]
     ][Shift_visit[built.arena, Shift_new(1, 1), unpack(built.arena, built.out).right]]
  ][Build[<<>>, redex]]

\* C24: no beta-step of an evaluation, on a closed or an open term, makes
\* Shift::visit_term fail with 'index is 0': in the term handed to
\* Shift(1, -1) for any redex of the current term, every Variable that the
\* shift moves (index >= 1 + k under k Lambdas) has index >= 2 + k.
C24_UnshiftStaysPositive ==
  /\ pc # "panic"
  /\ expr # Unwind
  /\ \A redex \in {s \in Subtrees[TreeOf[arena, expr]] :
                     s.kind = "Eval" /\ s.left.kind = "Lambda"} :
        LandsAtLeast[BeforeUnshift[redex], 1, 0, 2]

\* The open redex (\x.\x. 2 3) (\y. 1 2) has been fired: the unshift took
\* the free 3 to 2 under one Lambda and left the raised argument's 3.
C24_Witness ==
  /\ calls = 1 /\ step = 1 /\ pc # "panic"
  /\ TreeOf[arena, input] = OpenRedex
  /\ Shape(arena, expr) = Strip[Lam("x", App(Lam("y", App(Var(1), Var(3))), Var(2)))]

\* ------------------------------------------- the cache of a Replace visit

\* The handles of the result against those of the visited term: a Variable
\* i under depth Lambdas with i = 1 + depth has become the cached handle of
\* key depth + 1, every other Variable is the handle it was.
ReplacedByCache[cells \in Any, offsets \in Any, before \in Any, after \in Any, depth \in Any] ==
  LET u == unpack(cells, before)
      v == unpack(cells, after)
  IN  CASE u.kind = "Term" ->
             IF u.de_bruijn_index = 1 + depth
             THEN (depth + 1) \in DOMAIN offsets /\ after = offsets[depth + 1]
             ELSE after = before
        [] u.kind = "Lambda" ->
             /\ v.kind = "Lambda"
             /\ ReplacedByCache[cells, offsets, u.body, v.body, depth + 1]
        [] u.kind = "Eval" ->
             /\ v.kind = "Eval"
             /\ ReplacedByCache[cells, offsets, u.left, v.left, depth]
             /\ ReplacedByCache[cells, offsets, u.right, v.right, depth]

\* C25: when a Replace visit returns, every cache entry of key k holds a
\* term equal to shift(1, k - 1, default), key 1 holds the default handle
\* itself, every occurrence of the target under k - 1 Lambdas has been
\* replaced by the one cached handle of key k, and target is 1 again.
C25_ReplaceCache ==
  (Len(trail) = 1 /\ trail[1].visit = "Replace")
  => /\ pc = "visit"
     /\ visitor.target = 1
     /\ visitor.default_expr = trail[1].new_value
     /\ 1 \in DOMAIN visitor.offsets
     /\ visitor.offsets[1] = trail[1].new_value
     /\ \A k \in DOMAIN visitor.offsets :
          TreeOf[arena, visitor.offsets[k]]
            = Shifted[TreeOf[arena, trail[1].new_value], 1, k - 1]
     /\ ReplacedByCache[arena, visitor.offsets, input, expr, 0]

\* C25 witness: Replace with the value 2 on \x. 2 2 has returned \x. 3 3,
\* and both Variables are the one handle cached under key 2.
C25_Witness ==
  /\ Len(trail) = 1 /\ trail[1].visit = "Replace"
  /\ TreeOf[arena, input] = Lam("x", App(Var(2), Var(2)))
  /\ TreeOf[arena, trail[1].new_value] = Var(2)
  /\ TreeOf[arena, expr] = Lam("x", App(Var(3), Var(3)))
  /\ DOMAIN visitor.offsets = {1, 2}
  /\ unpack(arena, unpack(arena, expr).body).left = visitor.offsets[2]
  /\ unpack(arena, unpack(arena, expr).body).right = visitor.offsets[2]

\* ------------------------------------ the abort flag and the outer loop

\* Evaluator::evaluate run to its return on the cells at hand: passes of
\* evaluate_strong until one changes nothing (at most fuel of them).
Evaluated[cells \in Any, e \in Any, fuel \in Any] ==
  [r \in Any |->
     IF r.out = Unwind \/ ~r.self.something_changed \/ fuel = 0
     THEN [done |-> r.out # Unwind /\ ~r.self.something_changed, arena |-> r.arena, out |-> r.out]
     ELSE Evaluated[r.arena, r.out, fuel - 1]
  ][evaluate_strong[cells, Evaluator_new, e]]

\* C26: evaluate_with_abort reads the flag once per iteration, before that
\* iteration's pass: a pass is entered only from a read that found the flag
\* clear, and is followed by the next read or by the return; a call that
\* starts with the flag set returns None with no reduction done, also on a
\* normal form; a flag set after the read of the iteration that changes
\* nothing leaves the normal form returned; and a call during which the
\* flag was never set returns the term evaluate returns.
C26_AbortReadOncePerIteration ==
  /\ [][(with_abort /\ pc' = "pass" /\ pc # "pass")
          => (pc = "check" /\ ~abort /\ arena' = arena /\ expr' = expr /\ step' = step)]_vars
  /\ [][(with_abort /\ PassStep) => pc' \in {"check", "done", "panic"}]_vars
  /\ [][(with_abort /\ abort /\ pc = "check" /\ step = 0 /\ vars' # vars)
          => (pc' = "done" /\ result' = None /\ arena' = arena /\ expr' = input)]_vars
  /\ (with_abort /\ abort /\ pc = "check" /\ step = 0) ~> (pc = "done" /\ result = None)
  /\ [][(with_abort /\ abort /\ PassStep /\ pc' # "panic" /\ ~evaluator'.something_changed)
          => (pc' = "done" /\ result' = Some(expr') /\ BetaNormal[TreeOf[arena', expr']])]_vars
  /\ []((with_abort /\ ~abort /\ pc = "done")
          => [r \in Any |-> r.done /\ result.some
                            /\ TreeOf[arena, result.expr] = TreeOf[r.arena, r.out]
             ][Evaluated[arena, input, MaxSteps]])

\* C26 witness: the flag was set after the read of the last iteration of a
\* call that had reduced K K (\y. y) for one iteration, and K was returned.
C26_Witness ==
  /\ with_abort /\ abort /\ pc = "done" /\ result.some /\ step = 1 /\ calls = 1
  /\ ~evaluator.something_changed
  /\ TreeOf[arena, input] # TreeOf[arena, result.expr]

\* --------------------------------- something_changed and the handle of a pass

\* C27: after every pass of the outer loop something_changed is true
\* exactly when the handle the pass returned differs from the handle it was
\* given: a pass over a term with a redex fires a beta-step and returns
\* another handle, a pass over a term with none returns the handle it was
\* given, allocates nothing and leaves the flag false, and the loop is left
\* exactly when the returned handle is the one passed in.
C27_ChangedIffNewHandle ==
  [][(PassStep /\ pc' # "panic")
       => /\ evaluator'.something_changed <=> (expr' # expr)
          /\ ~BetaNormal[TreeOf[arena, expr]] => (expr' # expr)
          /\ BetaNormal[TreeOf[arena, expr]] => (expr' = expr /\ arena' = arena)
          /\ (pc' = "done") <=> (expr' = expr)
          /\ (pc' = "done") => (result' = Some(expr))]_vars

\* C27 witness: evaluate of S K K took passes that each returned a new
\* handle and a last one that returned the handle it was given, with the
\* flag false.
C27_Witness ==
  /\ ~with_abort /\ calls = 1 /\ pc = "done" /\ step >= 2
  /\ ~evaluator.something_changed
  /\ result = Some(expr) /\ expr # input
  /\ TreeOf[arena, input] = SKK

\* ------------------------------------------ the globals after a load

\* Every term bound in the globals map is closed.
GlobalsClosed ==
  \A name \in DOMAIN symbol_table.globals :
     Closed(TreeOf[arena, symbol_table.globals[name]])

\* C28: once load_code has returned, with Ok or with Err after recording
\* errors, every term stored in the globals map is closed, and no step
\* replaces or removes a stored binding.
C28_GlobalsClosedAndKept ==
  /\ []((pc \in {"failed", "loaded"}) => GlobalsClosed)
  /\ [][\A name \in DOMAIN symbol_table.globals :
          /\ name \in DOMAIN symbol_table'.globals
          /\ symbol_table'.globals[name] = symbol_table.globals[name]]_vars

====
